---- MODULE Spec2Model ----
(***************************************************************************)
(* Model of the drake build engine (src/src/drake/__init__.py): nodes,     *)
(* builders, dependency files and the Builder.run protocol, driven by a    *)
(* cooperative scheduler.  A behaviour is a succession of driver runs over *)
(* one build description, separated by edits of the files on disk.         *)
(*                                                                         *)
(* Description modelled (ShellCommand builders B1, B2 and a Rule):         *)
(*     s --B1--> m --B2--> t        r = Rule('r', [m, t]), builder B3      *)
(* B2 scans its source while executing and registers the header h as a     *)
(* dynamic source of category "hdr" when the source includes it.           *)
(***************************************************************************)
EXTENDS Integers, Sequences, FiniteSets, TLC

\* ---------------------------------------------------------------- bounds
\* Spec: driver runs and edits of one session, every schedule explored.
MaxRuns == 2
MaxEdits == 1
\* SpecSeq: longer sessions of a single requested node with jobs = 1.
SeqRuns == 4
SeqEdits == 3
\* SpecDesc: nodes, builder constructions and default nodes of a drakefile.
MaxNodes == 2
MaxBuilders == 2
MaxDefaults == 1
MaxName == 3
MaxReg == 2
\* SpecFan: driver runs of the fan description.
FanRuns == 1
MaxCount == 2
MaxBeacon == 5

\* ---------------------------------------------------------------- state
VARIABLES
  layout,      \* the description that is built: "chain" or "fan"
  kind,        \* what B1's command writes: a copy of s, or constant bytes;
               \* "partial": a copy, and commands may write before they fail
  jobs,        \* the --jobs setting
  desc,        \* BaseNode.nodes, the nodes' builder and consumers, _DEFAULTS
  dep,         \* a DepFile object and its store file, as text
  sch,         \* coroutines stepped by hand, a signal and a beacon
  bhash,       \* Builder.hash() of each builder (NoHash: None)
  disk,        \* content of each file node's file (Absent: no file)
  prim,        \* persisted primary DepFile of each builder: name -> sha1
  catf,        \* persisted dynamic DepFiles: [exists, sha] per category
  bhf,         \* persisted drake.Builder file (NoFile: absent)
  phase,       \* "idle" between driver runs, "running" during one
  runs, edits,
  coros,       \* the coroutines of the current run
  executed, bexc, sig,      \* Builder.__executed, __executed_exception, __executed_signal
  dynsrc,      \* Builder.__dynsrc
  regfiles,    \* DepFile.__files of the primary DepFile
  sha,         \* DepFile.__sha1 of the primary DepFile
  dfiles,      \* Builder._depfiles: [present, files, sha] per category
  memo,        \* Node.__hash
  sem,         \* count of _JOBS_LOCK
  tests,       \* TestSuite.__success and __failures of r, calls of its report
  execCount,   \* number of calls of execute() in this run
  execRes,     \* what the last execute() of the builder returned
  why,         \* facts observed when the builder reached the staleness decision
  req, lastReq, prevOK, changed, noop, lastEdit,
  prevRes,     \* the builders whose execute() returned false in the previous
               \* run (kept where commands may write before they fail)
  cache0       \* the persisted records as they were when the run started

descVars == <<layout, kind, jobs, desc, dep, sch>>
diskVars == <<disk, prim, catf, bhf>>
runVars == <<coros, executed, bexc, sig, dynsrc, regfiles, sha, dfiles, memo, sem,
             tests>>
histVars == <<execCount, execRes, why>>
ctlVars == <<phase, runs, edits, req, lastReq, prevOK, changed, noop, lastEdit,
             prevRes, cache0>>
vars == <<descVars, bhash, diskVars, runVars, histVars, ctlVars>>

\* ----------------------------------------------------------- description
\* Two descriptions are built.  The chain of the header comment, and a
\* fan: ShellCommand builders B1, B2, B3 without source whose targets are
\* m, t, x, and r = Rule('r', [m, t, x]) with builder B4.  A third one is
\* the chain with t among the sources of B1: B1 = Builder([s, t], [m]) and
\* B2 = Builder([m], [t]) depend on each other.  A fourth one is the chain
\* in which h is generated: B4 = ShellCommand([m], [h]), and the rule is
\* B3 = Builder([s], [r]), which registers h as a dynamic source when it
\* executes.  A fifth one is the chain to whose rule nodes are appended
\* with r << n once it is constructed.
Fan == layout = "fan"
Cycle == layout = "cycle"
Gen == layout = "gen"
Late == layout = "late"

FileNodes == IF Fan THEN {"m", "t", "x"} ELSE {"s", "h", "m", "t"}
Nodes == FileNodes \cup {"r"}
Leaves == IF Fan THEN {} ELSE IF Gen THEN {"s"} ELSE {"s", "h"}
Builders ==
  IF Fan \/ Gen THEN {"B1", "B2", "B3", "B4"} ELSE {"B1", "B2", "B3"}
Cats == {"hdr"}
NoB == "none"

\* Names in ascending order: the order of a builder's source dictionary.
NodeOrder ==
  IF Fan THEN <<"m", "r", "t", "x">> ELSE <<"h", "m", "r", "s", "t">>

\* The builders in the order of their construction.
BuilderOrder == <<"B1", "B2", "B3", "B4">>

BuilderId(b) == CHOOSE k \in 1..Len(BuilderOrder) : BuilderOrder[k] = b

\* The sources given to the constructor of the builder.
DeclaredSources(b) ==
  IF Fan THEN (IF b = "B4" THEN {"m", "t", "x"} ELSE {})
  ELSE CASE b = "B1" -> IF Cycle THEN {"s", "t"} ELSE {"s"}
         [] b = "B2" -> {"m"}
         [] b = "B3" -> IF Gen THEN {"s"} ELSE {"m", "t"}
         [] b = "B4" -> {"m"}

\* Builder.__sources.  add_src puts the builder among the consumers of the
\* node as it puts the node among the sources (lines 1573-1574): where
\* sources are added after the construction, the sources are read from
\* the consumers.
Sources(b) ==
  IF Late
    THEN {n \in Nodes : BuilderId(b) \in desc.objs[desc.registry[n]].consumers}
    ELSE DeclaredSources(b)

VSources(b) == {}

Targets(b) ==
  IF Fan THEN CASE b = "B1" -> {"m"}
                [] b = "B2" -> {"t"}
                [] b = "B3" -> {"x"}
                [] b = "B4" -> {"r"}
  ELSE CASE b = "B1" -> {"m"}
         [] b = "B2" -> {"t"}
         [] b = "B3" -> {"r"}
         [] b = "B4" -> {"h"}

BuilderOf(n) ==
  IF \E b \in Builders : n \in Targets(b)
    THEN CHOOSE b \in Builders : n \in Targets(b)
    ELSE NoB

\* Builders whose execute() goes through Builder.cmd (ShellCommand).
CmdBuilders ==
  IF Fan THEN {"B1", "B2", "B3"}
  ELSE IF Gen THEN {"B1", "B2", "B4"} ELSE {"B1", "B2"}

\* Categories for which a deps handler is registered.
DepsHandlers == {"hdr"}

\* Exceptions deriving from drake.Exception, the only ones that
\* "except Exception" catches inside the drake module.
DrakeExceptions == {"Failed", "NoBuilder", "Fatal"}
Excs == DrakeExceptions \cup {"IOError", "KeyError", "AttributeError"}
NoExc == "none"

\* ------------------------------------------------------------ file model
Absent == 0
Contents == {1, 2}
NoRec == 0
NoMemo == 0
EmptyHash == 9
NoFile == -1
NoHash == 0
BHashes == {1, 2}

\* SHA-1 of a file's bytes, as an injective map from contents to digests.
Sha1(c) == 10 + c

EmptySha == [n \in Nodes |-> NoRec]

SeqOf(S) == SelectSeq(NodeOrder, LAMBDA n : n \in S)



\* ------------------------------------------------------------ Node
Missing(n, dk) == n \in FileNodes /\ dk[n] = Absent

\* Node.hash of a file whose digest is not memoized opens the file: it
\* raises IOError when the file does not exist.
HashRaises(n, mm, dk) == n \in FileNodes /\ mm[n] = NoMemo /\ dk[n] = Absent

HashVal(n, mm, dk) ==
  IF n \notin FileNodes THEN EmptyHash
  ELSE IF mm[n] # NoMemo THEN mm[n] ELSE Sha1(dk[n])

MemoAfter(n, mm, dk) ==
  IF n \in FileNodes /\ mm[n] = NoMemo /\ dk[n] # Absent
    THEN [mm EXCEPT ![n] = Sha1(dk[n])]
    ELSE mm

_can_skip_node(n, ex, dk) ==
  IF BuilderOf(n) = NoB
    THEN IF n \in FileNodes THEN ~Missing(n, dk) ELSE TRUE
    ELSE ex[BuilderOf(n)]

\* ------------------------------------------------------------ DepFile
\* DepFile.read: the records of the file are added to __sha1.
DepFileRead(cur, file) ==
  [n \in Nodes |-> IF file[n] # NoRec THEN file[n] ELSE cur[n]]

\* Mutant of up_to_date: a differing hash is not noticed.
RECURSIVE up_to_date_blind(_, _, _, _)
up_to_date_blind(seq, sh, mm, dk) ==
  IF seq = <<>> THEN [res |-> "true", memo |-> mm]
  ELSE LET n == Head(seq) IN
    IF sh[n] = NoRec THEN up_to_date_blind(Tail(seq), sh, mm, dk)
    ELSE IF HashRaises(n, mm, dk) THEN [res |-> "raise", memo |-> mm]
    ELSE up_to_date_blind(Tail(seq), sh, MemoAfter(n, mm, dk), dk)

\* DepFile.up_to_date over the recorded names, in order: "true", "false"
\* at the first differing hash, "raise" when a hash cannot be computed.
RECURSIVE up_to_date(_, _, _, _)
up_to_date(seq, sh, mm, dk) ==
  IF seq = <<>> THEN [res |-> "true", memo |-> mm]
  ELSE LET n == Head(seq) IN
    IF sh[n] = NoRec THEN up_to_date(Tail(seq), sh, mm, dk)
    ELSE IF HashRaises(n, mm, dk) THEN [res |-> "raise", memo |-> mm]
    ELSE IF sh[n] # HashVal(n, mm, dk)
      THEN [res |-> "false", memo |-> MemoAfter(n, mm, dk)]
      ELSE up_to_date(Tail(seq), sh, MemoAfter(n, mm, dk), dk)

\* DepFile.update: the file is truncated, then one record per registered
\* node is written; a hash that raises leaves the records written so far.
RECURSIVE update(_, _, _, _)
update(seq, out, mm, dk) ==
  IF seq = <<>> THEN [ok |-> TRUE, memo |-> mm, file |-> out]
  ELSE LET n == Head(seq) IN
    IF HashRaises(n, mm, dk) THEN [ok |-> FALSE, memo |-> mm, file |-> out]
    ELSE update(Tail(seq), [out EXCEPT ![n] = HashVal(n, mm, dk)],
                MemoAfter(n, mm, dk), dk)

NoDepFile == [present |-> FALSE, files |-> {}, sha |-> EmptySha]
NoCatFile == [exists |-> FALSE, sha |-> EmptySha]
CatOrder == <<"hdr">>

\* ------------------------------------------------------------ world
\* The mutable state a step of Builder.run works on, as one record.
World ==
  [disk |-> disk, prim |-> prim, catf |-> catf, bhf |-> bhf,
   executed |-> executed, bexc |-> bexc, sig |-> sig, dynsrc |-> dynsrc,
   regfiles |-> regfiles, sha |-> sha, dfiles |-> dfiles, memo |-> memo,
   sem |-> sem, execCount |-> execCount, execRes |-> execRes, why |-> why,
   tests |-> tests]

Apply(w0) ==
  \E w \in {w0} :
    /\ disk' = w.disk /\ prim' = w.prim /\ catf' = w.catf /\ bhf' = w.bhf
    /\ executed' = w.executed /\ bexc' = w.bexc /\ sig' = w.sig
    /\ dynsrc' = w.dynsrc /\ regfiles' = w.regfiles /\ sha' = w.sha
    /\ dfiles' = w.dfiles /\ memo' = w.memo /\ sem' = w.sem
    /\ execCount' = w.execCount /\ execRes' = w.execRes /\ why' = w.why
    /\ tests' = w.tests

\* ------------------------------------------------------------ Builder.run
\* Mutant of RunEpilogue: the exception is not stored.
RunEpilogueForgets(w, b, e) ==
  [w EXCEPT !.executed[b] = TRUE, !.sig[b] = "fired"]

\* Mutant of RunEpilogue: the signal is not fired.
RunEpilogueNoSignal(w, b, e) ==
  [w EXCEPT !.bexc[b] = IF e \in DrakeExceptions THEN e ELSE @,
            !.executed[b] = TRUE]

\* The except/finally clauses that end Builder.run (lines 1543-1548): only
\* a drake.Exception is stored; in every case the builder becomes executed
\* and its signal fires.
RunEpilogue(w, b, e) ==
  [w EXCEPT !.bexc[b] = IF e \in DrakeExceptions THEN e ELSE @,
            !.executed[b] = TRUE,
            !.sig[b] = "fired"]

\* Lines 1354-1382 for one category file f of the cachedir.
LoadCategory(w, b, f) ==
  LET rd == DepFileRead(w.dfiles[b][f].sha, w.catf[b][f].sha)
      new == {n \in Nodes : rd[n] # NoRec /\ n \notin Sources(b)
                             /\ n \notin w.dynsrc[b]}
  IN IF f \notin DepsHandlers
       THEN [w |-> [w EXCEPT !.dfiles[b][f] =
                      [present |-> TRUE, files |-> @.files, sha |-> rd]],
             exc |-> "KeyError"]
       ELSE [w |-> [w EXCEPT !.dfiles[b][f] =
                      [present |-> TRUE, files |-> @.files \cup new, sha |-> rd],
                    !.dynsrc[b] = @ \cup new],
             exc |-> NoExc]

RECURSIVE LoadCategories(_, _, _)
LoadCategories(w, b, cs) ==
  IF cs = <<>> THEN [w |-> w, exc |-> NoExc]
  ELSE IF ~w.catf[b][Head(cs)].exists THEN LoadCategories(w, b, Tail(cs))
  ELSE LET r == LoadCategory(w, b, Head(cs)) IN
    IF r.exc # NoExc THEN r ELSE LoadCategories(r.w, b, Tail(cs))

\* Lines 1346-1382: the runner registers its static sources in the primary
\* DepFile and reloads the dynamic dependencies.
RunPrologue(w, b) ==
  LoadCategories([w EXCEPT !.regfiles[b] = @ \cup Sources(b)], b, CatOrder)

\* Mutant of CatsUpToDate: the DepFiles of the categories are not checked.
CatsAssumedUpToDate(cs, dfb, mm, dk, acc) == [res |-> acc, memo |-> mm]

\* Lines 1473-1479 for the categories: every DepFile of _depfiles is
\* checked, even once one of them is found outdated.
RECURSIVE CatsUpToDate(_, _, _, _, _)
CatsUpToDate(cs, dfb, mm, dk, acc) ==
  IF cs = <<>> THEN [res |-> acc, memo |-> mm]
  ELSE IF ~dfb[Head(cs)].present THEN CatsUpToDate(Tail(cs), dfb, mm, dk, acc)
  ELSE LET u == up_to_date(NodeOrder, dfb[Head(cs)].sha, mm, dk) IN
    IF u.res = "raise" THEN u
    ELSE CatsUpToDate(Tail(cs), dfb, u.memo, dk,
                      IF u.res = "false" THEN "false" ELSE acc)

\* Mutant of TargetMissing: a missing target is not looked for.
TargetNeverMissing(b, dk) == FALSE

\* Lines 1430-1438: some target is missing.
TargetMissing(b, dk) == \E d \in Targets(b) : Missing(d, dk)

\* Mutant of BuilderOutdated: the builder hash is not compared.
BuilderNeverOutdated(b, file) == FALSE

\* Lines 1454-1471: the builder has a hash and the drake.Builder file is
\* absent or holds another one.
BuilderOutdated(b, file) == bhash[b] # NoHash /\ file # bhash[b]

\* Mutant of NewSource: the sources are not looked up in the DepFile.
NoNewSource(b, rd) == FALSE

\* Lines 1440-1452: a static source has no record in the primary DepFile.
NewSource(b, rd) == \E p \in Sources(b) : rd[p] = NoRec

\* Lines 1430-1479: the staleness decision, reached once the static and the
\* dynamic sources are built.  dynfail: the wait on the dynamic sources
\* raised a drake.Exception.  The result is "execute", "uptodate" or
\* "raise" (a hash could not be computed).
Staleness(w, b, dynfail) ==
  LET tmiss == \E d \in Targets(b) : Missing(d, w.disk)
      e1 == dynfail \/ TargetMissing(b, w.disk)
      rd == DepFileRead(w.sha[b], w.prim[b])
      newsrc == \E p \in Sources(b) : rd[p] = NoRec
      e2 == e1 \/ NewSource(b, rd)
      bhstale == bhash[b] # NoHash /\ w.bhf[b] # bhash[b]
      e3 == e2 \/ BuilderOutdated(b, w.bhf[b])
      u1 == up_to_date(NodeOrder, rd, w.memo, w.disk)
      u2 == CatsUpToDate(CatOrder, w.dfiles[b], u1.memo, w.disk, "true")
      w1 == [w EXCEPT !.sha[b] = rd,
                      !.why[b] = [reached |-> TRUE, missing |-> tmiss,
                                  newsrc |-> newsrc, bhstale |-> bhstale,
                                  dynfail |-> dynfail,
                                  dynsrc |-> w.dynsrc[b]]]
  IN IF e3 THEN [w |-> w1, res |-> "execute"]
     ELSE IF u1.res = "raise"
       THEN [w |-> [w1 EXCEPT !.memo = u1.memo], res |-> "raise"]
     ELSE IF u2.res = "raise"
       THEN [w |-> [w1 EXCEPT !.memo = u2.memo], res |-> "raise"]
     ELSE [w |-> [w1 EXCEPT !.memo = u2.memo],
           res |-> IF u1.res = "false" \/ u2.res = "false"
                     THEN "execute" ELSE "uptodate"]

\* Lines 1486-1499 and the call of execute(): the dynamic sources and the
\* dynamic DepFiles are forgotten; dependencies() is the base hook, which
\* adds nothing, so no freshly added dynamic source is built.
BeginExecute(w, b) ==
  [w EXCEPT !.dynsrc[b] = {},
            !.dfiles[b] = [c \in Cats |-> NoDepFile],
            !.execCount[b] = @ + 1]

\* What the command of a ShellCommand writes into its target.
Output(b, dk) ==
  IF Fan THEN 1
  ELSE CASE b = "B1" -> IF kind \in {"copy", "partial"} THEN dk["s"] ELSE 1
         [] b = "B2" -> dk["m"]
         [] b = "B4" -> dk["m"]
         [] OTHER -> Absent

\* The source a command reads; the command fails when it does not exist.
Reads(b) ==
  IF Fan THEN {}
  ELSE CASE b = "B1" -> IF kind \in {"copy", "partial"} THEN {"s"} ELSE {}
         [] b = "B2" -> {"m"}
         [] b = "B4" -> {"m"}
         [] OTHER -> {}

\* The dynamic sources execute() registers: B2 registers h under "hdr"
\* when the bytes of m include it and the file is there to be included.
Scanned(b, dk) ==
  IF ~Fan /\ b = "B2" /\ dk["m"] = 2 /\ dk["h"] # Absent THEN {"h"}
  ELSE IF Gen /\ b = "B3" /\ dk["h"] # Absent THEN {"h"}
  ELSE {}

\* Results execute() may have: "false", "true" (the target is written),
\* "nofile" (true is returned but the command wrote nothing) or, with the
\* commands that write before they fail, "partial" (the command wrote the
\* target, then failed: false is returned).
Outcomes(b, dk) ==
  IF b \notin CmdBuilders THEN {"true"}
  ELSE IF \E n \in Reads(b) : dk[n] = Absent THEN {"false"}
  ELSE IF kind = "partial" THEN {"false", "true", "nofile", "partial"}
  ELSE {"false", "true", "nofile"}

\* What execute() returns.
Returned(o) == IF o = "partial" THEN "false" ELSE o

\* The effect of execute() itself: the command writes the target, then the
\* scanned dynamic sources are registered with add_dynsrc.
Execute(w, b, o) ==
  LET scan == Scanned(b, w.disk) IN
  IF o = "false" THEN [w EXCEPT !.execRes[b] = o]
  ELSE IF o = "partial"
    THEN [w EXCEPT !.disk = [n \in FileNodes |->
                               IF n \in Targets(b) THEN Output(b, w.disk)
                               ELSE w.disk[n]],
                   !.execRes[b] = Returned(o)]
  ELSE [w EXCEPT !.disk = [n \in FileNodes |->
                             IF n \in Targets(b) /\ o = "true" /\ b \in CmdBuilders
                               THEN Output(b, w.disk)
                               ELSE w.disk[n]],
                 !.dynsrc[b] = @ \cup scan,
                 !.dfiles[b] = [c \in Cats |->
                                  IF c = "hdr" /\ scan # {}
                                    THEN [present |-> TRUE,
                                          files |-> @[c].files \cup scan,
                                          sha |-> @[c].sha]
                                    ELSE @[c]],
                 !.execRes[b] = o]

\* DepFile.update of every DepFile of _depfiles (lines 1534-1537).
RECURSIVE UpdateCats(_, _, _)
UpdateCats(w, b, cs) ==
  IF cs = <<>> THEN [w |-> w, ok |-> TRUE]
  ELSE IF ~w.dfiles[b][Head(cs)].present THEN UpdateCats(w, b, Tail(cs))
  ELSE LET u == update(SeqOf(w.dfiles[b][Head(cs)].files), EmptySha,
                       w.memo, w.disk)
           w1 == [w EXCEPT !.memo = u.memo,
                           !.catf[b][Head(cs)] = [exists |-> TRUE, sha |-> u.file]]
       IN IF u.ok THEN UpdateCats(w1, b, Tail(cs)) ELSE [w |-> w1, ok |-> FALSE]

\* Mutant of AfterExecute: the DepFiles are written before the result of
\* execute() is looked at.
AfterExecuteWritesFirst(w0, b, o) ==
  LET w == Execute(w0, b, o)
      u == update(SeqOf(w.regfiles[b]), EmptySha, w.memo, w.disk)
      w2 == [w EXCEPT !.memo = u.memo, !.prim[b] = u.file,
                      !.bhf[b] = IF bhash[b] = NoHash THEN NoFile ELSE bhash[b]]
  IN IF Returned(o) = "false" THEN [w |-> RunEpilogue(w2, b, "Failed"), exc |-> "Failed"]
     ELSE IF \E d \in Targets(b) : Missing(d, w.disk)
       THEN [w |-> RunEpilogue(w2, b, "Fatal"), exc |-> "Fatal"]
     ELSE IF ~u.ok THEN [w |-> RunEpilogue(w2, b, "IOError"), exc |-> "IOError"]
     ELSE [w |-> RunEpilogue(UpdateCats(w2, b, CatOrder).w, b, NoExc), exc |-> NoExc]

\* Mutant of AfterExecute: the targets are not looked for once execute()
\* returned true.
AfterExecuteNoTargetCheck(w0, b, o) ==
  LET w == Execute(w0, b, o)
      w1 == [w EXCEPT !.memo = [n \in FileNodes |->
                                  IF n \in Targets(b) THEN NoMemo ELSE @[n]]]
      u == update(SeqOf(w1.regfiles[b]), EmptySha, w1.memo, w1.disk)
      w2 == [w1 EXCEPT !.memo = u.memo, !.prim[b] = u.file,
                       !.bhf[b] = IF bhash[b] = NoHash THEN NoFile ELSE bhash[b]]
  IN IF Returned(o) = "false" THEN [w |-> RunEpilogue(w, b, "Failed"), exc |-> "Failed"]
     ELSE IF ~u.ok THEN [w |-> RunEpilogue(w2, b, "IOError"), exc |-> "IOError"]
     ELSE [w |-> RunEpilogue(UpdateCats(w2, b, CatOrder).w, b, NoExc), exc |-> NoExc]

\* Mutant of AfterExecute: the memoized hashes of the targets are kept.
AfterExecuteKeepsMemo(w0, b, o) ==
  LET w == Execute(w0, b, o)
      tmiss == \E d \in Targets(b) : Missing(d, w.disk)
      u == update(SeqOf(w.regfiles[b]), EmptySha, w.memo, w.disk)
      w2 == [w EXCEPT !.memo = u.memo, !.prim[b] = u.file]
      w3 == [w2 EXCEPT !.bhf[b] = IF bhash[b] = NoHash THEN NoFile ELSE bhash[b]]
      uc == UpdateCats(w3, b, CatOrder)
  IN IF Returned(o) = "false" THEN [w |-> RunEpilogue(w, b, "Failed"), exc |-> "Failed"]
     ELSE IF tmiss THEN [w |-> RunEpilogue(w, b, "Fatal"), exc |-> "Fatal"]
     ELSE IF ~u.ok THEN [w |-> RunEpilogue(w2, b, "IOError"), exc |-> "IOError"]
     ELSE IF ~uc.ok THEN [w |-> RunEpilogue(uc.w, b, "IOError"), exc |-> "IOError"]
     ELSE [w |-> RunEpilogue(uc.w, b, NoExc), exc |-> NoExc]

\* Lines 1501-1548 once execute() returned o: the exception raised (NoExc
\* when the run ends normally) and the state Builder.run leaves.
AfterExecute(w0, b, o) ==
  LET w == Execute(w0, b, o)
      tmiss == \E d \in Targets(b) : Missing(d, w.disk)
      w1 == [w EXCEPT !.memo = [n \in FileNodes |->
                                  IF n \in Targets(b) THEN NoMemo ELSE @[n]]]
      u == update(SeqOf(w1.regfiles[b]), EmptySha, w1.memo, w1.disk)
      w2 == [w1 EXCEPT !.memo = u.memo, !.prim[b] = u.file]
      w3 == [w2 EXCEPT !.bhf[b] = IF bhash[b] = NoHash THEN NoFile ELSE bhash[b]]
      uc == UpdateCats(w3, b, CatOrder)
  IN IF Returned(o) = "false" THEN [w |-> RunEpilogue(w, b, "Failed"), exc |-> "Failed"]
     ELSE IF tmiss THEN [w |-> RunEpilogue(w, b, "Fatal"), exc |-> "Fatal"]
     ELSE IF ~u.ok THEN [w |-> RunEpilogue(w2, b, "IOError"), exc |-> "IOError"]
     ELSE IF ~uc.ok THEN [w |-> RunEpilogue(uc.w, b, "IOError"), exc |-> "IOError"]
     ELSE [w |-> RunEpilogue(uc.w, b, NoExc), exc |-> NoExc]


\* ------------------------------------------------------------ coroutines
Coro(n, p) ==
  [node |-> n, parent |-> p, pc |-> "start", exc |-> NoExc, kids |-> {},
   role |-> "new"]

\* Coroutine(node.build, ..., parent): one child per node of ns.
Spawn(cs, p, ns) == cs \o [k \in 1..Len(ns) |-> Coro(ns[k], p)]

KidIds(cs, ns) == (Len(cs) + 1)..(Len(cs) + Len(ns))

\* An exception that leaves a coroutine without parent leaves
\* Scheduler.run: the run is over.
Stopped == \E i \in DOMAIN coros :
             coros[i].parent = 0 /\ coros[i].pc = "done" /\ coros[i].exc # NoExc

AllDone == \A i \in DOMAIN coros : coros[i].pc = "done"

Ready(i) == phase = "running" /\ ~Stopped /\ i \in DOMAIN coros

\* Mutant of KidsDone: the wait is over as soon as one awaited coroutine
\* has failed.
KidsDoneOrFailed(i) ==
  \/ \A k \in coros[i].kids : coros[k].pc = "done"
  \/ \E k \in coros[i].kids : coros[k].pc = "done" /\ coros[k].exc # NoExc

\* Mutant of KidsDone: the wait is not over while an awaited coroutine
\* has ended with an exception.
KidsDoneNoExc(i) ==
  \A k \in coros[i].kids : coros[k].pc = "done" /\ coros[k].exc = NoExc

\* coro_wait returns once every awaited coroutine is done.
KidsDone(i) == \A k \in coros[i].kids : coros[k].pc = "done"

Failing(i) == {k \in coros[i].kids : coros[k].exc # NoExc}

\* coro_wait: the exception of the first awaited coroutine that failed.
WaitExc(i) ==
  IF Failing(i) = {} THEN NoExc
  ELSE coros[CHOOSE k \in Failing(i) : \A j \in Failing(i) : k <= j].exc

Ends(i, e, role) ==
  coros' = [coros EXCEPT ![i].pc = "done", ![i].exc = e, ![i].role = role]

\* The coroutine becomes the runner of b (lines 1346-1405): prologue, then
\* one coroutine per static or virtual source that cannot be skipped.
BecomeRunner(i, w, b) ==
  LET p == RunPrologue(w, b)
      ns == SeqOf({n \in Sources(b) \cup VSources(b) :
                     ~_can_skip_node(n, p.w.executed, p.w.disk)})
  IN IF p.exc # NoExc
       THEN /\ Apply(RunEpilogue(p.w, b, p.exc))
            /\ Ends(i, p.exc, "runner")
       ELSE /\ Apply(p.w)
            /\ coros' = Spawn([coros EXCEPT ![i].pc = "waitstatic",
                                            ![i].kids = KidIds(coros, ns),
                                            ![i].role = "runner"], i, ns)

\* Mutant of Gate: the executed flag is not consulted, the caller runs the
\* builder again.
GateNoExecutedCheck(i, w, b, role) == BecomeRunner(i, w, b)

\* Lines 1326-1345: the gate of Builder.run once the coroutine is past the
\* wait, if any.
Gate(i, w, b, role) ==
  IF w.executed[b]
    THEN /\ Ends(i, w.bexc[b], role)
         /\ Apply(w)
    ELSE BecomeRunner(i, w, b)

\* Mutant of BuildLeaf: BaseNode.build is used, which does not look for
\* the file.
BuildLeafNeverRaises(n, dk) == NoExc

\* Node.build of a node without builder (lines 1031-1035): NoBuilder when
\* the file is missing, nothing to do otherwise.
BuildLeaf(n, dk) == IF Missing(n, dk) THEN "NoBuilder" ELSE NoExc

\* Mutant of StepStart: a caller that finds the builder being run does not
\* wait on its signal and runs it too.
StepStartNoWait(i) ==
  /\ Ready(i) /\ coros[i].pc = "start"
  /\ LET n == coros[i].node
         b == BuilderOf(n)
     IN IF b = NoB
          THEN /\ Ends(i, BuildLeaf(n, disk), "leaf")
               /\ Apply(World)
        ELSE IF executed[b] THEN Gate(i, World, b, "late")
        ELSE BecomeRunner(i, [World EXCEPT !.sig[b] = "created"], b)
  /\ UNCHANGED <<descVars, bhash, ctlVars>>

\* Node.build up to the first suspension of Builder.run.
StepStart(i) ==
  /\ Ready(i) /\ coros[i].pc = "start"
  /\ LET n == coros[i].node
         b == BuilderOf(n)
     IN IF b = NoB
          THEN /\ Ends(i, BuildLeaf(n, disk), "leaf")
               /\ Apply(World)
        ELSE IF executed[b] THEN Gate(i, World, b, "late")
        ELSE IF sig[b] = "created"
          THEN /\ coros' = [coros EXCEPT ![i].pc = "waitsig", ![i].role = "waiter"]
               /\ Apply(World)
        ELSE IF sig[b] = "fired" THEN Gate(i, World, b, "waiter")
        ELSE BecomeRunner(i, [World EXCEPT !.sig[b] = "created"], b)
  /\ UNCHANGED <<descVars, bhash, ctlVars>>

\* A coroutine frozen on the builder's signal resumes once it fired.
StepSignal(i) ==
  /\ Ready(i) /\ coros[i].pc = "waitsig"
  /\ sig[BuilderOf(coros[i].node)] = "fired"
  /\ Gate(i, World, BuilderOf(coros[i].node), "waiter")
  /\ UNCHANGED <<descVars, bhash, ctlVars>>

\* The builder of a TestSuite: r is one wherever it is a rule.
IsSuite(b) == ~Gen /\ "r" \in Targets(b)

\* Builder.build_status (lines 1312-1317) of the builder of node n: "none"
\* while it is not executed.
build_status(w, n) ==
  IF ~w.executed[BuilderOf(n)] THEN "none"
  ELSE IF w.bexc[BuilderOf(n)] = NoExc THEN "true" ELSE "false"

\* One turn of the loop of TestSuite.report_dependencies (lines 2920-2925)
\* on a source that has a builder.
tally(w, n) ==
  IF build_status(w, n) = "true"
    THEN [w EXCEPT !.tests.success = @ + 1]
    ELSE [w EXCEPT !.tests.failures = @ + 1]

\* TestSuite.report_dependencies (lines 2918-2927) over the sources in
\* order; BaseNode.build_status (lines 820-822) of a node without builder
\* reads an attribute of None.
RECURSIVE report_dependencies(_, _)
report_dependencies(w, deps) ==
  IF deps = <<>> THEN [w |-> w, exc |-> NoExc]
  ELSE IF BuilderOf(Head(deps)) = NoB THEN [w |-> w, exc |-> "AttributeError"]
  ELSE report_dependencies(tally(w, Head(deps)), Tail(deps))

\* The finally clause of lines 1404-1407: the sources are reported,
\* whether coro_wait raised e or not; an exception of the report takes
\* the place of e.
Reported(w, b, e) ==
  IF ~IsSuite(b) THEN [w |-> w, exc |-> e]
  ELSE LET r == report_dependencies([w EXCEPT !.tests.reports = @ + 1],
                                    SeqOf(Sources(b)))
       IN [w |-> r.w, exc |-> IF r.exc # NoExc THEN r.exc ELSE e]

\* Mutant of StepStatic: the runner does not wait for the coroutines of
\* its static sources.
StepStaticNoWait(i) ==
  /\ Ready(i) /\ coros[i].pc = "waitstatic"
  /\ LET b == BuilderOf(coros[i].node)
         rp == Reported(World, b, WaitExc(i))
         e == rp.exc
         ns == SeqOf({n \in dynsrc[b] : ~_can_skip_node(n, executed, disk)})
     IN IF e # NoExc
          THEN /\ Apply(RunEpilogue(rp.w, b, e))
               /\ Ends(i, e, "runner")
          ELSE /\ Apply(rp.w)
               /\ coros' = Spawn([coros EXCEPT ![i].pc = "waitdyn",
                                               ![i].kids = KidIds(coros, ns)],
                                 i, ns)
  /\ UNCHANGED <<descVars, bhash, ctlVars>>

\* Lines 1404-1421: the static sources are built; report_dependencies is
\* the base hook; then one coroutine per dynamic source.
StepStatic(i) ==
  /\ Ready(i) /\ coros[i].pc = "waitstatic" /\ KidsDone(i)
  /\ LET b == BuilderOf(coros[i].node)
         rp == Reported(World, b, WaitExc(i))
         e == rp.exc
         ns == SeqOf({n \in dynsrc[b] : ~_can_skip_node(n, executed, disk)})
     IN IF e # NoExc
          THEN /\ Apply(RunEpilogue(rp.w, b, e))
               /\ Ends(i, e, "runner")
          ELSE /\ Apply(rp.w)
               /\ coros' = Spawn([coros EXCEPT ![i].pc = "waitdyn",
                                               ![i].kids = KidIds(coros, ns)],
                                 i, ns)
  /\ UNCHANGED <<descVars, bhash, ctlVars>>

\* Builder.cmd with a jobs lock: execute() suspends in the background
\* operation, or on the semaphore when its count is zero.
Suspends(b) == jobs > 1 /\ b \in CmdBuilders

\* Lines 1422-1548: the dynamic sources are built; staleness decision; if
\* needed execute(), inline when it does not suspend.
StepDynamic(i) ==
  /\ Ready(i) /\ coros[i].pc = "waitdyn" /\ KidsDone(i)
  /\ LET b == BuilderOf(coros[i].node)
         e == WaitExc(i)
     IN \E st \in {Staleness(World, b, e # NoExc)} :
        \E w1 \in {BeginExecute(st.w, b)} :
        IF e # NoExc /\ e \notin DrakeExceptions
          THEN /\ Apply(RunEpilogue(World, b, e))
               /\ Ends(i, e, "runner")
        ELSE IF st.res = "raise"
          THEN /\ Apply(RunEpilogue(st.w, b, "IOError"))
               /\ Ends(i, "IOError", "runner")
        ELSE IF st.res = "uptodate"
          THEN /\ Apply(RunEpilogue(st.w, b, NoExc))
               /\ Ends(i, NoExc, "runner")
        ELSE IF Suspends(b)
          THEN IF w1.sem > 0
                 THEN /\ Apply([w1 EXCEPT !.sem = @ - 1])
                      /\ coros' = [coros EXCEPT ![i].pc = "exec"]
                 ELSE /\ Apply(w1)
                      /\ coros' = [coros EXCEPT ![i].pc = "waitlock"]
        ELSE \E o \in Outcomes(b, w1.disk) :
               \E r \in {AfterExecute(w1, b, o)} :
               /\ Apply(r.w)
               /\ Ends(i, r.exc, "runner")
  /\ UNCHANGED <<descVars, bhash, ctlVars>>

\* Mutant of StepLock: the lock is taken whatever the count.
StepLockAnyCount(i) ==
  /\ Ready(i) /\ coros[i].pc = "waitlock"
  /\ Apply([World EXCEPT !.sem = IF @ > 0 THEN @ - 1 ELSE 0])
  /\ coros' = [coros EXCEPT ![i].pc = "exec"]
  /\ UNCHANGED <<descVars, bhash, ctlVars>>

\* Semaphore.lock resumes once the count is positive.
StepLock(i) ==
  /\ Ready(i) /\ coros[i].pc = "waitlock" /\ sem > 0
  /\ Apply([World EXCEPT !.sem = @ - 1])
  /\ coros' = [coros EXCEPT ![i].pc = "exec"]
  /\ UNCHANGED <<descVars, bhash, ctlVars>>

\* The background command ends: the lock is released and Builder.run goes
\* on from the result of execute().
StepExec(i) ==
  /\ Ready(i) /\ coros[i].pc = "exec"
  /\ LET b == BuilderOf(coros[i].node) IN
     \E o \in Outcomes(b, disk) :
       \E r \in {AfterExecute([World EXCEPT !.sem = @ + 1], b, o)} :
       /\ Apply(r.w)
       /\ Ends(i, r.exc, "runner")
  /\ UNCHANGED <<descVars, bhash, ctlVars>>


\* ------------------------------------------------------------ drakefile
\* The objects a drakefile constructs: desc.objs[u] is the node of uid u,
\* desc.registry is BaseNode.nodes (absolute name -> uid), desc.defaults is
\* _DEFAULTS, desc.btargets[id] is the list of targets of the builder id
\* (empty when its construction raised), desc.last is what the last call
\* returned or raised (built: the nodes the build mode makes coroutines
\* for).
NodeClasses == {"Node", "VirtualNode"}
NoNode == 0
NoBuilderId == 0

Last(op, name, class, res, uid) ==
  [op |-> op, name |-> name, class |-> class, res |-> res, uid |-> uid,
   built |-> {}]

DescEmpty ==
  [objs |-> <<>>, registry |-> [n \in Nodes |-> NoNode], balloc |-> 0,
   buid |-> 0, defaults |-> <<>>, btargets |-> <<>>,
   last |-> Last("none", "none", "none", "none", NoNode)]

\* Mutant of NodeInit: the registry is not consulted, the new node takes
\* the place of the registered one.
NodeInitOverwrites(d, c, name) ==
  [exc |-> NoExc,
   d |-> [d EXCEPT !.objs = Append(@, [name |-> name, class |-> c,
                                        builder |-> NoBuilderId,
                                        consumers |-> {}]),
                   !.registry[name] = Len(d.objs) + 1]]

\* BaseNode.__init__ (lines 744-754), reached from the constructors of Node
\* and VirtualNode with the absolute name.
NodeInit(d, c, name) ==
  IF d.registry[name] # NoNode
    THEN [exc |-> "NodeRedefinition", d |-> d]
    ELSE [exc |-> NoExc,
          d |-> [d EXCEPT !.objs = Append(@, [name |-> name, class |-> c,
                                               builder |-> NoBuilderId,
                                               consumers |-> {}]),
                          !.registry[name] = Len(d.objs) + 1]]

\* _BaseNodeType.__call__ (lines 714-724): the call c(name).
NodeCall(d, c, name) ==
  LET r == NodeInit(d, c, name)
      old == d.registry[name]
  IN IF r.exc = NoExc
       THEN [r.d EXCEPT !.last = Last("construct", name, c, "new", Len(r.d.objs))]
     ELSE IF d.objs[old].class = c
       THEN [d EXCEPT !.last = Last("construct", name, c, "existing", old)]
       ELSE [d EXCEPT !.last = Last("construct", name, c, "AssertionError", NoNode)]

\* node(path, type) (lines 1062-1084); "none" stands for type = None.
NodeLookup(d, c, name) ==
  IF d.registry[name] # NoNode
    THEN [d EXCEPT !.last = Last("node", name, c, "existing", d.registry[name])]
    ELSE LET r == NodeCall(d, IF c = "none" THEN "Node" ELSE c, name)
         IN [r EXCEPT !.last.op = "node"]

\* Mutant of SetTargets: the builder of a target is replaced.
RECURSIVE SetTargetsNoCheck(_, _, _)
SetTargetsNoCheck(objs, dsts, id) ==
  IF dsts = <<>> THEN [objs |-> objs, ok |-> TRUE]
  ELSE SetTargetsNoCheck([objs EXCEPT ![Head(dsts)].builder = id], Tail(dsts), id)

\* The loop over the targets of Builder.__init__ (lines 1189-1193).
RECURSIVE SetTargets(_, _, _)
SetTargets(objs, dsts, id) ==
  IF dsts = <<>> THEN [objs |-> objs, ok |-> TRUE]
  ELSE IF objs[Head(dsts)].builder # NoBuilderId THEN [objs |-> objs, ok |-> FALSE]
  ELSE SetTargets([objs EXCEPT ![Head(dsts)].builder = id], Tail(dsts), id)

\* Builder.__init__ (lines 1176-1205): add_src for every source, then the
\* targets; id is the new builder object.
BuilderInit(d, srcs, dsts) ==
  LET id == d.balloc + 1
      o0 == [u \in DOMAIN d.objs |->
               IF u \in srcs THEN [d.objs[u] EXCEPT !.consumers = @ \cup {id}]
               ELSE d.objs[u]]
      o1 == SubSeq(o0, 1, Len(d.objs))
      t == SetTargets(o1, dsts, id)
  IN [d EXCEPT !.objs = t.objs, !.balloc = id,
               !.buid = IF t.ok THEN @ + 1 ELSE @,
               !.btargets = Append(@, IF t.ok THEN dsts ELSE <<>>),
               !.last = Last("builder", "none", "none",
                             IF t.ok THEN "new" ELSE "builder redefinition", id)]

\* Copy.__init__ (lines 2321-2330): the target is the clone of the source
\* at the destination, Node(to) (line 938), which is the registered node
\* when there is one; its builder is reset, then Builder.__init__ is
\* called with the source and the target.
CopyInit(d, src, name) ==
  LET c == NodeCall(d, "Node", name)
      t == c.last.uid
  IN IF c.last.res = "AssertionError"
       THEN [c EXCEPT !.last.op = "copy"]
       ELSE BuilderInit([c EXCEPT !.objs[t].builder = NoBuilderId],
                        {src}, <<t>>)

SeqRange(q) == {q[k] : k \in DOMAIN q}

Roots(d) == {u \in DOMAIN d.objs : d.objs[u].consumers = {}}

\* Mutant of BuildNoRequest: the roots are built with the defaults.
BuildNoRequestUnion(d) ==
  [d EXCEPT !.last = [Last("build", "none", "none", "none", NoNode)
                       EXCEPT !.built = Roots(d) \cup SeqRange(d.defaults)]]

\* The driver called without node (lines 2269-2277) in build mode (lines
\* 2039-2045): _DEFAULTS, or the nodes without consumer when it is empty.
BuildNoRequest(d) ==
  [d EXCEPT !.last = [Last("build", "none", "none", "none", NoNode)
                       EXCEPT !.built = IF d.defaults # <<>>
                                          THEN SeqRange(d.defaults)
                                          ELSE Roots(d)]]

\* The description the engine specifications run: s, h, m, t, r and the
\* builders of the layout, constructed in this order.
ChainDesc ==
  [DescEmpty EXCEPT
     !.objs = [k \in 1..Len(NodeOrder) |->
                 [name |-> NodeOrder[k],
                  class |-> IF NodeOrder[k] \in FileNodes THEN "Node"
                            ELSE "VirtualNode",
                  builder |-> IF BuilderOf(NodeOrder[k]) = NoB THEN NoBuilderId
                              ELSE CHOOSE k2 \in 1..Len(BuilderOrder) :
                                     BuilderOrder[k2] = BuilderOf(NodeOrder[k]),
                  consumers |-> {k2 \in 1..Len(BuilderOrder) :
                                   /\ BuilderOrder[k2] \in Builders
                                   /\ NodeOrder[k] \in DeclaredSources(BuilderOrder[k2])}]],
     !.registry = [n \in Nodes |->
                     CHOOSE k \in 1..Len(NodeOrder) : NodeOrder[k] = n],
     !.balloc = Cardinality(Builders), !.buid = Cardinality(Builders),
     !.btargets = [k \in 1..Cardinality(Builders) |->
                     <<CHOOSE u \in 1..Len(NodeOrder) :
                         NodeOrder[u] \in Targets(BuilderOrder[k])>>]]

\* The fan description as the objects its drakefile constructs: the nodes
\* in the order of their names, then the builders B1 to B4.
FanDesc ==
  [DescEmpty EXCEPT
     !.objs = [k \in 1..Len(NodeOrder) |->
                 [name |-> NodeOrder[k],
                  class |-> IF NodeOrder[k] \in FileNodes THEN "Node"
                            ELSE "VirtualNode",
                  builder |-> CHOOSE k2 \in 1..Len(BuilderOrder) :
                                NodeOrder[k] \in Targets(BuilderOrder[k2]),
                  consumers |-> {k2 \in 1..Len(BuilderOrder) :
                                   NodeOrder[k] \in DeclaredSources(BuilderOrder[k2])}]],
     !.registry = [n \in Nodes |->
                     CHOOSE k \in 1..Len(NodeOrder) : NodeOrder[k] = n],
     !.balloc = Len(BuilderOrder), !.buid = Len(BuilderOrder),
     !.btargets = [k \in 1..Len(BuilderOrder) |->
                     <<CHOOSE u \in 1..Len(NodeOrder) :
                         NodeOrder[u] \in Targets(BuilderOrder[k])>>]]

engineVars == <<layout, kind, jobs, dep, sch, bhash, diskVars, runVars, histVars, ctlVars>>

Construct(c, name) ==
  /\ Len(desc.objs) < MaxNodes \/ desc.registry[name] # NoNode
  /\ desc' = NodeCall(desc, c, name)
  /\ UNCHANGED engineVars

Lookup(c, name) ==
  /\ Len(desc.objs) < MaxNodes \/ desc.registry[name] # NoNode
  /\ desc' = NodeLookup(desc, c, name)
  /\ UNCHANGED engineVars

NewBuilder(srcs, dsts) ==
  /\ desc.balloc < MaxBuilders
  /\ srcs \subseteq DOMAIN desc.objs
  /\ dsts # <<>> /\ SeqRange(dsts) \subseteq DOMAIN desc.objs
  /\ desc' = BuilderInit(desc, srcs, dsts)
  /\ UNCHANGED engineVars

\* Copy(source, to) for a source that is a file node.
NewCopy(src, name) ==
  /\ desc.balloc < MaxBuilders
  /\ src \in DOMAIN desc.objs /\ desc.objs[src].class = "Node"
  /\ Len(desc.objs) < MaxNodes \/ desc.registry[name] # NoNode
  /\ desc' = CopyInit(desc, src, name)
  /\ UNCHANGED engineVars

\* add_default_node (lines 2173-2174).
AddDefault(u) ==
  /\ Len(desc.defaults) < MaxDefaults
  /\ u \in DOMAIN desc.objs
  /\ desc' = [desc EXCEPT !.defaults = Append(@, u),
                          !.last = Last("default", "none", "none", "none", u)]
  /\ UNCHANGED engineVars

BuildAll ==
  /\ desc' = BuildNoRequest(desc)
  /\ UNCHANGED engineVars

\* ------------------------------------------------------------ DepFile text
\* Strings are sequences of characters; a hash and a type tag are written
\* as one token each, since neither holds a space or a separator.
Chars == {"a", " ", "/"}
Strings == UNION {[1..k -> Chars] : k \in 0..MaxName}

\* str.split(c).
RECURSIVE Split(_, _)
Split(str, c) ==
  IF str = <<>> THEN << <<>> >>
  ELSE LET r == Split(Tail(str), c)
       IN IF Head(str) = c THEN << <<>> >> \o r
          ELSE << <<Head(str)>> \o Head(r) >> \o Tail(r)

\* c.join(parts).
RECURSIVE Join(_, _)
Join(parts, c) ==
  IF parts = <<>> THEN <<>>
  ELSE IF Len(parts) = 1 THEN parts[1]
  ELSE parts[1] \o <<c>> \o Join(Tail(parts), c)

\* Path.__init__ on a string (lines 128-156, not Windows).
PathOf(str) ==
  IF str = <<>> THEN [path |-> <<>>, virtual |-> FALSE, absolute |-> FALSE]
  ELSE LET v == Len(str) >= 2 /\ str[1] = "/" /\ str[2] = "/"
           body == IF v THEN SubSeq(str, 3, Len(str)) ELSE str
           q == Split(body, "/")
       IN [path |-> IF Len(q) > 1 /\ q[Len(q)] = <<>>
                      THEN SubSeq(q, 1, Len(q) - 1) ELSE q,
           virtual |-> v, absolute |-> q[1] = <<>>]

\* Path.__str__ (lines 271-278).
PathStr(P) ==
  (IF P.virtual THEN <<"/", "/">> ELSE <<>>)
    \o (IF P.path = <<>> THEN <<".">> ELSE Join(P.path, "/"))

\* The name of the node constructed as Node(str) or VirtualNode(str) in the
\* root drakefile (lines 914-916 and 930-937), its hash and its type tag.
NodeName(c, str) ==
  IF c = "VirtualNode" THEN [PathOf(str) EXCEPT !.virtual = TRUE] ELSE PathOf(str)

HashOf(c) == IF c = "VirtualNode" THEN <<>> ELSE <<"da39">>
drake_type(c) == <<c>>

NoText == <<"none">>
DepEmpty ==
  [files |-> <<>>, text |-> NoText, sha1 |-> <<>>, op |-> "none",
   written |-> FALSE]

\* DepFile.register (lines 606-608): __files[str(node.name())] = node; the
\* dictionary keeps the position of a key it already has.
register(files, node) ==
  LET key == PathStr(node.name)
  IN IF \E k \in DOMAIN files : files[k].key = key
       THEN [k \in DOMAIN files |->
               IF files[k].key = key THEN [key |-> key, node |-> node]
               ELSE files[k]]
       ELSE Append(files, [key |-> key, node |-> node])

\* The line DepFile.update prints for a node (lines 647-650), without its
\* newline.
LineOf(node) ==
  node.hash \o <<" ">> \o PathStr(node.name) \o <<" ">> \o drake_type(node.class)

\* DepFile.update (lines 643-650): the lines of the store file.
update_text(files) == [k \in DOMAIN files |-> LineOf(files[k].node)]

\* The body of the loop of DepFile.read (lines 621-626) on a line without
\* its newline.
ParseLine(line) ==
  LET chunks == Split(line, " ")
  IN [key |-> PathStr(PathOf(Join(SubSeq(chunks, 2, Len(chunks) - 1), " "))),
      val |-> <<chunks[1], chunks[Len(chunks)]>>]

\* DepFile.read (lines 616-626): __sha1 after the lines are read; __sha1 is
\* a sequence of [key, val] with one element per key.
RECURSIVE read_text(_, _)
read_text(sha1, text) ==
  IF text = <<>> THEN sha1
  ELSE LET e == ParseLine(Head(text))
           s1 == IF \E k \in DOMAIN sha1 : sha1[k].key = e.key
                   THEN [k \in DOMAIN sha1 |->
                           IF sha1[k].key = e.key THEN e ELSE sha1[k]]
                   ELSE Append(sha1, e)
       IN read_text(SubSeq(s1, 1, Len(s1)), Tail(text))

notDepVars == <<layout, kind, jobs, desc, sch, bhash, diskVars, runVars, histVars, ctlVars>>

Register(c, str) ==
  /\ Len(dep.files) < MaxReg
  /\ c = "VirtualNode" => ~PathOf(str).absolute
  /\ LET node == [name |-> NodeName(c, str), class |-> c, hash |-> HashOf(c)]
         f == register(dep.files, node)
     IN dep' = [dep EXCEPT !.files = SubSeq(f, 1, Len(f)), !.op = "register",
                           !.written = FALSE]
  /\ UNCHANGED notDepVars

Update ==
  /\ LET t == update_text(dep.files)
     IN dep' = [dep EXCEPT !.text = SubSeq(t, 1, Len(t)), !.op = "update",
                           !.written = TRUE]
  /\ UNCHANGED notDepVars

Read ==
  /\ LET t == IF dep.text = NoText THEN <<>> ELSE dep.text
     IN dep' = [dep EXCEPT !.text = t, !.sha1 = read_text(dep.sha1, t),
                           !.op = "read"]
  /\ UNCHANGED notDepVars

\* ------------------------------------------------------------ sched
\* Coroutines stepped one step at a time, as the tests of the scheduler
\* do.  A program is a sequence of instructions: "beacon" assigns the
\* beacon, "yield" is coro_yield, "wait" waits for a coroutine, "waitsig"
\* waits for the signal and "signal" fires it; "inc" adds one to the beacon,
\* "lock" and "unlock" are those of the semaphore.
Ins(op, arg) == [op |-> op, arg |-> arg]

\* 1: coroutine(1); 2: coroutine_wait(1, 3); 3: the coroutine that fires
\* the signal once it ran its builder; 4, 5: coroutines that wait for it.
WaitProgs ==
  << <<Ins("beacon", 1), Ins("yield", 0), Ins("beacon", 2)>>,
     <<Ins("wait", 1), Ins("beacon", 3)>>,
     <<Ins("yield", 0), Ins("signal", 0)>>,
     <<Ins("waitsig", 0), Ins("beacon", 4)>>,
     <<Ins("waitsig", 0), Ins("beacon", 5)>> >>

\* One unlock of read_f, after its three yields.
check == <<Ins("yield", 0), Ins("yield", 0), Ins("yield", 0), Ins("unlock", 0)>>

\* A command run under the lock of the jobs: the lock is held across the
\* suspension of the coroutine.
cmd == <<Ins("lock", 0), Ins("yield", 0), Ins("unlock", 0)>>

\* 1: lock_f, three locks, the beacon counting them; 2: read_f, three
\* unlocks; 3, 4: two commands under the lock.
SemProgs ==
  << <<Ins("lock", 0), Ins("inc", 0), Ins("lock", 0), Ins("inc", 0),
       Ins("lock", 0), Ins("inc", 0)>>,
     check \o check \o check,
     cmd,
     cmd >>

\* test_fwd_exception.  1: coro, which expects the exception of its scope
\* ("try" names the instruction that follows the block); 2: subcoro;
\* 3: raiser.
FwdProgs ==
  << <<Ins("try", 6), Ins("scope", 0), Ins("run", 2), Ins("endscope", 0),
       Ins("except", 0)>>,
     <<Ins("scope", 0), Ins("run", 3), Ins("endscope", 0)>>,
     <<Ins("raise", 0)>> >>

\* The waiter of test_continue_raise.
waiter == <<Ins("yield", 0), Ins("yield", 0), Ins("yield", 0), Ins("inc", 0)>>

\* test_continue_raise.  1: main; 2: thrower; 3: waiter; and a second
\* waiter, 4.
ContinueProgs ==
  << <<Ins("scope", 0), Ins("run", 2), Ins("run", 3), Ins("run", 4),
       Ins("endscope", 0)>>,
     <<Ins("raise", 0)>>,
     waiter,
     waiter >>

\* The incrementer of test_break_scope: while True.
incrementer == <<Ins("inc", 0), Ins("yield", 0), Ins("jump", 1)>>

\* test_break_scope.  1: main; 2: incrementer.
BreakProgs ==
  << <<Ins("scope", 0), Ins("run", 2), Ins("yield", 0), Ins("yield", 0),
       Ins("raise", 0), Ins("endscope", 0)>>,
     incrementer >>

\* test_terminate_starting.  1: main; 2: incrementer.
StartingProgs ==
  << <<Ins("scope", 0), Ins("run", 2), Ins("raise", 0), Ins("endscope", 0)>>,
     <<Ins("inc", 0)>> >>

ScopeSuites == {"fwd", "continue", "break", "starting"}

ProgsOf(suite) ==
  CASE suite = "sem" -> SemProgs
    [] suite = "fwd" -> FwdProgs
    [] suite = "continue" -> ContinueProgs
    [] suite = "break" -> BreakProgs
    [] suite = "starting" -> StartingProgs
    [] OTHER -> WaitProgs

\* The coroutines of the suite that is run.
Progs == ProgsOf(sch.suite)

BeaconException == "BeaconException"
AssertionError == "AssertionError"
\* The exception a cancelled coroutine is woken with.
Terminate == "Terminate"

NoCoro == 0
SchedCoro ==
  [pc |-> 1, frozen |-> FALSE, done |-> FALSE, born |-> TRUE,
   throw |-> NoExc, exc |-> NoExc, blocks |-> <<>>]
SchedIdle ==
  [suite |-> "wait", co |-> <<>>, fired |-> FALSE, beacon |-> 0,
   count0 |-> 0, count |-> 0, semq |-> <<>>, raised |-> NoExc,
   last |-> [who |-> NoCoro, res |-> "none"]]
SchedStart ==
  [SchedIdle EXCEPT !.co = [i \in 1..Len(WaitProgs) |-> SchedCoro]]

\* Semaphore(n) and the coroutines that use it.
SemStart(n) ==
  [SchedIdle EXCEPT !.suite = "sem", !.count0 = n, !.count = n,
                    !.co = [i \in 1..Len(SemProgs) |-> SchedCoro]]

\* The coroutine created by a test of the scopes; the others are created
\* by Scope.run.
ScopeStart(suite) ==
  [SchedIdle EXCEPT
     !.suite = suite,
     !.co = [i \in 1..Len(ProgsOf(suite)) |->
               [SchedCoro EXCEPT !.born = (i = 1)]]]

\* The instruction a frozen coroutine is suspended in.
WaitsIn(st, j) == Progs[j][st.co[j].pc - 1]

\* The coroutines of W are no longer frozen.
Thaw(st, W) ==
  LET co == [j \in DOMAIN st.co |->
               IF j \in W THEN [st.co[j] EXCEPT !.frozen = FALSE] ELSE st.co[j]]
  IN [st EXCEPT !.co = SubSeq(co, 1, Len(st.co))]

SigWaiters(st) ==
  {j \in DOMAIN st.co : st.co[j].frozen /\ WaitsIn(st, j).op = "waitsig"}

\* Mutant of signal: one of the waiting coroutines is woken.
signal_one(st) ==
  LET W == SigWaiters(st)
  IN [Thaw(st, IF W = {} THEN {} ELSE {CHOOSE j \in W : \A k \in W : j <= k})
        EXCEPT !.fired = TRUE]

\* Signal.signal: the signal has fired and every coroutine waiting for it
\* is ready.
signal(st) == [Thaw(st, SigWaiters(st)) EXCEPT !.fired = TRUE]

\* The end of a coroutine: it is done and the coroutines waiting for it
\* are ready.
Finish(st, i) ==
  LET W == {j \in DOMAIN st.co : /\ st.co[j].frozen
                                   /\ WaitsIn(st, j) = Ins("wait", i)}
  IN [Thaw(st, W) EXCEPT !.co[i].done = TRUE]

\* A block a coroutine is in: a Scope with its children, the first
\* exception it captured and whether its exit has begun, or a block that
\* expects BeaconException and is followed by instruction pad.
Block(type, pad) ==
  [type |-> type, kids |-> {}, exc |-> NoExc, exiting |-> FALSE, pad |-> pad]

Front(q) == SubSeq(q, 1, Len(q) - 1)
Innermost(q) == q[Len(q)]

\* Every child of the scope has ended.
KidsOver(st, blk) == \A k \in blk.kids : st.co[k].done

\* Mutant of Cancel: nothing is cancelled.
CancelNothing(st, K) == st

\* The coroutines of K that have not ended are cancelled: each is
\* unfrozen, with the cancellation exception to raise where it stands.
Cancel(st, K) ==
  LET co == [j \in DOMAIN st.co |->
               IF j \in K /\ ~st.co[j].done
                 THEN [st.co[j] EXCEPT !.throw = Terminate, !.frozen = FALSE]
                 ELSE st.co[j]]
  IN [st EXCEPT !.co = SubSeq(co, 1, Len(st.co))]

\* The scopes coroutine i is a child of: <<owner, depth>>.
Owners(st, i) ==
  {pd \in (DOMAIN st.co) \X (1..Len(Progs[1])) :
     /\ pd[2] \in DOMAIN st.co[pd[1]].blocks
     /\ i \in st.co[pd[1]].blocks[pd[2]].kids}

\* The end of coroutine i with exception e, or none.  The scope it is a
\* child of captures a first exception and cancels the other children,
\* and its owner is ready once it waits for an exit all the children of
\* which have ended; the exception of a coroutine that is in no scope is
\* raised out of Scheduler.run.
End(st, i, e) ==
  LET fin == [Finish(st, i) EXCEPT !.co[i].exc = e, !.co[i].blocks = <<>>,
                                   !.co[i].throw = NoExc]
      failed == e \notin {NoExc, Terminate}
  IN IF Owners(st, i) = {}
       THEN IF failed THEN [fin EXCEPT !.raised = e] ELSE fin
       ELSE LET pd == CHOOSE x \in Owners(st, i) : TRUE
                p == pd[1]
                d == pd[2]
                blk == fin.co[p].blocks[d]
                rec == IF failed /\ blk.exc = NoExc
                         THEN [fin EXCEPT !.co[p].blocks[d].exc = e]
                         ELSE fin
                can == IF failed THEN Cancel(rec, blk.kids \ {i}) ELSE rec
            IN IF blk.exiting /\ KidsOver(can, blk) THEN Thaw(can, {p})
               ELSE can

\* Semaphore.lock: a positive count is decremented; on a count of zero
\* the caller is suspended behind the coroutines that already wait.
lock(st, i) ==
  IF st.count > 0 THEN [st EXCEPT !.count = @ - 1]
  ELSE [st EXCEPT !.co[i].frozen = TRUE, !.semq = Append(@, i)]

\* Mutant of unlock: every suspended locker is released.
unlock_all(st) ==
  [Thaw(st, {st.semq[k] : k \in DOMAIN st.semq})
     EXCEPT !.semq = <<>>, !.count = @ + 1 - Len(st.semq)]

\* Semaphore.unlock: the count is incremented, and the coroutine that has
\* waited longest, if any, is released with the lock it asked for.
unlock(st) ==
  LET inc == [st EXCEPT !.count = @ + 1]
  IN IF st.semq = <<>> THEN inc
     ELSE [Thaw(inc, {Head(st.semq)})
             EXCEPT !.semq = Tail(@), !.count = @ - 1]

RECURSIVE Resume(_, _)
RECURSIVE Unwind(_, _, _)

\* Mutant of ExitRaising: the children of the scope are left alone and the
\* exception goes on at once.
ExitRaisingAtOnce(st, i, e) ==
  Unwind([st EXCEPT !.co[i].blocks = Front(@)], i, e)

\* Scope.__exit__ with exception e: the children are cancelled, and the
\* exception goes on once all of them have ended.
ExitRaising(st, i, e) ==
  LET n == Len(st.co[i].blocks)
      blk == st.co[i].blocks[n]
      can == Cancel([st EXCEPT !.co[i].blocks[n].exc = e,
                               !.co[i].blocks[n].exiting = TRUE], blk.kids)
  IN IF KidsOver(st, blk)
       THEN Unwind([st EXCEPT !.co[i].blocks = Front(@)], i, e)
       ELSE [can EXCEPT !.co[i].frozen = TRUE]

\* Exception e is raised in coroutine i: it leaves the blocks the
\* coroutine is in, innermost first, up to a block that expects it, and
\* ends the coroutine if there is none.
Unwind(st, i, e) ==
  IF st.co[i].blocks = <<>> THEN End(st, i, e)
  ELSE LET blk == Innermost(st.co[i].blocks)
           popped == [st EXCEPT !.co[i].blocks = Front(@)]
       IN IF blk.type = "scope" THEN ExitRaising(st, i, e)
          ELSE IF e = BeaconException
            THEN Resume([popped EXCEPT !.co[i].pc = blk.pad], i)
            ELSE Unwind(popped, i, e)

\* The code of coroutine i runs up to its next suspension or to its end.
\* A cancelled coroutine raises the cancellation exception where it
\* stands; a coroutine woken in the exit of a scope leaves the scope,
\* raising the exception the scope captured.
Resume(st, i) ==
  IF st.co[i].throw # NoExc
    THEN Unwind([st EXCEPT !.co[i].throw = NoExc], i, st.co[i].throw)
  ELSE IF st.co[i].blocks # <<>> /\ Innermost(st.co[i].blocks).exiting
    THEN LET e == Innermost(st.co[i].blocks).exc
             popped == [st EXCEPT !.co[i].blocks = Front(@)]
         IN IF e = NoExc THEN Resume(popped, i) ELSE Unwind(popped, i, e)
  ELSE IF st.co[i].pc > Len(Progs[i]) THEN End(st, i, NoExc)
  ELSE LET ins == Progs[i][st.co[i].pc]
           adv == [st EXCEPT !.co[i].pc = @ + 1]
           top == Len(st.co[i].blocks)
       IN CASE ins.op = "beacon" -> Resume([adv EXCEPT !.beacon = ins.arg], i)
            [] ins.op = "yield" -> adv
            [] ins.op = "wait" ->
                 IF st.co[ins.arg].done THEN Resume(adv, i)
                 ELSE [adv EXCEPT !.co[i].frozen = TRUE]
            [] ins.op = "waitsig" ->
                 IF st.fired THEN Resume(adv, i)
                 ELSE [adv EXCEPT !.co[i].frozen = TRUE]
            [] ins.op = "signal" -> Resume(signal(adv), i)
            [] ins.op = "inc" -> Resume([adv EXCEPT !.beacon = @ + 1], i)
            [] ins.op = "lock" ->
                 IF st.count > 0 THEN Resume(lock(adv, i), i)
                 ELSE lock(adv, i)
            [] ins.op = "unlock" -> Resume(unlock(adv), i)
            [] ins.op = "jump" -> Resume([st EXCEPT !.co[i].pc = ins.arg], i)
            [] ins.op = "scope" ->
                 Resume([adv EXCEPT !.co[i].blocks =
                                      Append(@, Block("scope", 0))], i)
            [] ins.op = "run" ->
                 Resume([adv EXCEPT !.co[ins.arg].born = TRUE,
                                    !.co[i].blocks[top].kids =
                                      @ \cup {ins.arg}], i)
            [] ins.op = "endscope" ->
                 LET ex == [adv EXCEPT !.co[i].blocks[top].exiting = TRUE]
                 IN IF KidsOver(st, st.co[i].blocks[top]) THEN Resume(ex, i)
                    ELSE [ex EXCEPT !.co[i].frozen = TRUE]
            [] ins.op = "try" ->
                 Resume([adv EXCEPT !.co[i].blocks =
                                      Append(@, Block("try", ins.arg))], i)
            [] ins.op = "except" ->
                 Unwind([adv EXCEPT !.co[i].blocks = Front(@)], i,
                        AssertionError)
            [] ins.op = "raise" -> Unwind(adv, i, BeaconException)

\* Mutant of step: a frozen coroutine is run.
step_frozen_runs(st, i) ==
  [Resume([st EXCEPT !.co[i].frozen = FALSE], i)
     EXCEPT !.last = [who |-> i, res |-> "ran"]]

\* Coroutine.step: CoroutineFrozen when the coroutine is frozen.
step(st, i) ==
  IF st.co[i].frozen
    THEN [st EXCEPT !.last = [who |-> i, res |-> "CoroutineFrozen"]]
    ELSE [Resume(st, i) EXCEPT !.last = [who |-> i, res |-> "ran"]]

notSchVars == <<layout, kind, jobs, desc, dep, bhash, diskVars, runVars,
                histVars, ctlVars>>

\* Scheduler.run stops with the exception of a coroutine; a coroutine
\* is stepped once it is created.
SchedStep(i) ==
  /\ i \in DOMAIN sch.co /\ ~sch.co[i].done
  /\ sch.co[i].born /\ sch.raised = NoExc
  /\ step(sch, i).beacon <= MaxBeacon
  /\ sch' = step(sch, i)
  /\ UNCHANGED notSchVars

\* ------------------------------------------------------------ driver
\* The sets of nodes a run is asked to build.
Requests == {{"t"}, {"r"}, {"r", "t"}, {"s"}}
SeqRequests == {{"t"}}

\* TestSuite.__init__ (lines 2901-2904).
NoTests == [success |-> 0, failures |-> 0, reports |-> 0]

\* The in-memory state of a process that has run nothing yet.
Fresh(co, ex, be, si, dy, rf, sh, df, me, se, ec, er, wh, su) ==
  /\ co = <<>>
  /\ ex = [b \in Builders |-> FALSE]
  /\ be = [b \in Builders |-> NoExc]
  /\ si = [b \in Builders |-> "none"]
  /\ dy = [b \in Builders |-> {}]
  /\ rf = [b \in Builders |-> {}]
  /\ sh = [b \in Builders |-> EmptySha]
  /\ df = [b \in Builders |-> [c \in Cats |-> NoDepFile]]
  /\ me = [n \in FileNodes |-> NoMemo]
  /\ se = jobs
  /\ ec = [b \in Builders |-> 0]
  /\ er = [b \in Builders |-> "none"]
  /\ wh = [b \in Builders |-> [reached |-> FALSE, missing |-> FALSE,
                                newsrc |-> FALSE, bhstale |-> FALSE,
                                dynfail |-> FALSE, dynsrc |-> {}]]
  /\ su = NoTests

InitAny ==
  /\ layout = "chain"
  /\ desc = ChainDesc
  /\ dep = DepEmpty
  /\ sch = SchedIdle
  /\ kind \in {"copy", "const"}
  /\ jobs \in {1, 2}
  /\ bhash \in {[b \in Builders |-> IF b = "B1" THEN v ELSE NoHash] :
                  v \in {NoHash, 1}}
  /\ disk \in {[n \in FileNodes |-> IF n = "s" THEN v
                                    ELSE IF n = "h" THEN 1 ELSE Absent] :
                 v \in {Absent} \cup Contents}
  /\ prim = [b \in Builders |-> EmptySha]
  /\ catf = [b \in Builders |-> [c \in Cats |-> NoCatFile]]
  /\ bhf = [b \in Builders |-> NoFile]
  /\ phase = "idle" /\ runs = 0 /\ edits = 0
  /\ req = {} /\ lastReq = {} /\ prevOK = FALSE /\ changed = FALSE
  /\ prevRes = {}
  /\ noop = FALSE /\ lastEdit = "none"
  /\ cache0 = [prim |-> prim, catf |-> catf, bhf |-> bhf]
  /\ Fresh(coros, executed, bexc, sig, dynsrc, regfiles, sha, dfiles,
           memo, sem, execCount, execRes, why, tests)

\* The build mode of the driver (lines 2039-2053): a new process, one
\* coroutine per requested node.
StartRun(R, maxRuns) ==
  /\ phase = "idle" /\ runs < maxRuns
  /\ R # {} /\ R \subseteq Nodes
  /\ phase' = "running" /\ runs' = runs + 1
  /\ req' = R
  /\ noop' = (prevOK /\ ~changed /\ R = lastReq)
  /\ cache0' = [prim |-> prim, catf |-> catf, bhf |-> bhf]
  /\ coros' = [k \in 1..Cardinality(R) |-> Coro(SeqOf(R)[k], 0)]
  /\ UNCHANGED <<descVars, bhash, diskVars, histVars, edits, lastReq, prevOK, prevRes,
                 changed, lastEdit, executed, bexc, sig, dynsrc, regfiles,
                 sha, dfiles, memo, sem, tests>>

\* Scheduler.run returns, or raises the exception of a top-level
\* coroutine; the process ends and with it every in-memory state.
EndRun ==
  /\ phase = "running" /\ (AllDone \/ Stopped)
  /\ UNCHANGED <<descVars, bhash, diskVars, runs, edits, cache0>>
  /\ phase' = "idle"
  /\ prevOK' = (AllDone /\ ~Stopped)
  /\ prevRes' = IF kind = "partial"
                  THEN {b \in Builders : execRes[b] = "false"}
                  ELSE {}
  /\ lastReq' = req /\ req' = {}
  /\ changed' = FALSE /\ lastEdit' = "none" /\ noop' = FALSE
  /\ Fresh(coros', executed', bexc', sig', dynsrc', regfiles', sha', dfiles',
           memo', sem', execCount', execRes', why', tests')

\* ------------------------------------------------------------ environment
\* Between two runs the user edits, creates or deletes a leaf file.
EditLeaf(n, v, maxEdits) ==
  /\ phase = "idle" /\ runs > 0 /\ edits < maxEdits
  /\ n \in Leaves /\ v \in {Absent} \cup Contents /\ v # disk[n]
  /\ disk' = [disk EXCEPT ![n] = v]
  /\ lastEdit' = IF ~changed /\ v # Absent /\ disk[n] # Absent THEN n ELSE "other"
  /\ changed' = TRUE /\ edits' = edits + 1
  /\ UNCHANGED <<descVars, bhash, prim, catf, bhf, runVars, histVars, phase,
                 runs, req, lastReq, prevOK, prevRes, noop, cache0>>

\* Between two runs the user deletes a target file.
DeleteTarget(n, maxEdits) ==
  /\ phase = "idle" /\ runs > 0 /\ edits < maxEdits
  /\ n \in FileNodes \ Leaves /\ disk[n] # Absent
  /\ disk' = [disk EXCEPT ![n] = Absent]
  /\ lastEdit' = "other"
  /\ changed' = TRUE /\ edits' = edits + 1
  /\ UNCHANGED <<descVars, bhash, prim, catf, bhf, runVars, histVars, phase,
                 runs, req, lastReq, prevOK, prevRes, noop, cache0>>

\* Between two runs the user deletes the file of category c from the
\* cachedir of builder b.
DeleteCatFile(b, c, maxEdits) ==
  /\ phase = "idle" /\ runs > 0 /\ edits < maxEdits
  /\ catf[b][c].exists
  /\ catf' = [catf EXCEPT ![b][c] = NoCatFile]
  /\ lastEdit' = IF ~changed THEN "catfile" ELSE "other"
  /\ changed' = TRUE /\ edits' = edits + 1
  /\ UNCHANGED <<descVars, bhash, disk, prim, bhf, runVars, histVars, phase,
                 runs, req, lastReq, prevOK, prevRes, noop, cache0>>

\* Between two runs the description changes the command of B1, hence its
\* Builder.hash().
SetBuilderHash(v, maxEdits) ==
  /\ phase = "idle" /\ runs > 0 /\ edits < maxEdits
  /\ v \in {NoHash} \cup BHashes /\ v # bhash["B1"]
  /\ bhash' = [bhash EXCEPT !["B1"] = v]
  /\ lastEdit' = "other"
  /\ changed' = TRUE /\ edits' = edits + 1
  /\ UNCHANGED <<descVars, diskVars, runVars, histVars, phase, runs, req,
                 lastReq, prevOK, prevRes, noop, cache0>>

\* Spec: sessions of the description whose commands copy, started without
\* builder hash, under every schedule and both kinds of jobs setting.  Two
\* commands are never in flight together in this description, so that
\* Semaphore.lock never suspends (StepLock is not enabled).
Init == InitAny /\ kind = "copy" /\ bhash["B1"] = NoHash

Next ==
  \/ \E R \in Requests : StartRun(R, MaxRuns)
  \/ EndRun
  \/ \E n \in Leaves, v \in {Absent} \cup Contents : EditLeaf(n, v, MaxEdits)
  \/ \E n \in FileNodes : DeleteTarget(n, MaxEdits)
  \/ \E v \in {NoHash} \cup BHashes : SetBuilderHash(v, MaxEdits)
  \/ \E i \in DOMAIN coros : StepStart(i)
  \/ \E i \in DOMAIN coros : StepSignal(i)
  \/ \E i \in DOMAIN coros : StepStatic(i)
  \/ \E i \in DOMAIN coros : StepDynamic(i)
  \/ \E i \in DOMAIN coros : StepExec(i)

Spec == Init /\ [][Next]_vars

\* SpecSeq: longer sessions that request t alone with jobs = 1, for every
\* kind of command and builder hash: one coroutine calls each builder and
\* execute() never suspends.
InitSeq == InitAny /\ jobs = 1

NextSeq ==
  \/ \E R \in SeqRequests : StartRun(R, SeqRuns)
  \/ EndRun
  \/ \E n \in Leaves, v \in {Absent} \cup Contents : EditLeaf(n, v, SeqEdits)
  \/ \E n \in FileNodes : DeleteTarget(n, SeqEdits)
  \/ \E v \in {NoHash} \cup BHashes : SetBuilderHash(v, SeqEdits)
  \/ \E i \in DOMAIN coros : StepStart(i)
  \/ \E i \in DOMAIN coros : StepStatic(i)
  \/ \E i \in DOMAIN coros : StepDynamic(i)

SpecSeq == InitSeq /\ [][NextSeq]_vars

\* SpecPartial: the sessions of SpecSeq with commands that copy and may
\* fail after they have written their target.
InitPartial ==
  /\ layout = "chain"
  /\ desc = ChainDesc
  /\ dep = DepEmpty
  /\ sch = SchedIdle
  /\ kind = "partial" /\ jobs = 1
  /\ bhash = [b \in Builders |-> NoHash]
  /\ disk \in {[n \in FileNodes |-> IF n = "s" THEN v
                                    ELSE IF n = "h" THEN 1 ELSE Absent] :
                 v \in {Absent} \cup Contents}
  /\ prim = [b \in Builders |-> EmptySha]
  /\ catf = [b \in Builders |-> [c \in Cats |-> NoCatFile]]
  /\ bhf = [b \in Builders |-> NoFile]
  /\ phase = "idle" /\ runs = 0 /\ edits = 0
  /\ req = {} /\ lastReq = {} /\ prevOK = FALSE /\ changed = FALSE
  /\ prevRes = {}
  /\ noop = FALSE /\ lastEdit = "none"
  /\ cache0 = [prim |-> prim, catf |-> catf, bhf |-> bhf]
  /\ Fresh(coros, executed, bexc, sig, dynsrc, regfiles, sha, dfiles,
           memo, sem, execCount, execRes, why, tests)

SpecPartial == InitPartial /\ [][NextSeq]_vars

\* SpecCache: the sessions of SpecSeq in which the user also deletes
\* category files from the cachedirs.
NextCache ==
  \/ NextSeq
  \/ \E b \in Builders, c \in Cats : DeleteCatFile(b, c, SeqEdits)

SpecCache == InitSeq /\ [][NextCache]_vars

\* SpecGen: sessions of the description in which B3 has the generated
\* file h as dynamic source, with jobs = 1 and commands that copy.
GenRequests == {{"h", "r"}, {"r", "t"}}

InitGen ==
  /\ layout = "gen"
  /\ desc = ChainDesc
  /\ dep = DepEmpty
  /\ sch = SchedIdle
  /\ kind = "copy" /\ jobs = 1
  /\ bhash = [b \in Builders |-> NoHash]
  /\ disk \in {[n \in FileNodes |-> IF n = "s" THEN v ELSE Absent] :
                 v \in Contents}
  /\ prim = [b \in Builders |-> EmptySha]
  /\ catf = [b \in Builders |-> [c \in Cats |-> NoCatFile]]
  /\ bhf = [b \in Builders |-> NoFile]
  /\ phase = "idle" /\ runs = 0 /\ edits = 0
  /\ req = {} /\ lastReq = {} /\ prevOK = FALSE /\ changed = FALSE
  /\ prevRes = {}
  /\ noop = FALSE /\ lastEdit = "none"
  /\ cache0 = [prim |-> prim, catf |-> catf, bhf |-> bhf]
  /\ Fresh(coros, executed, bexc, sig, dynsrc, regfiles, sha, dfiles,
           memo, sem, execCount, execRes, why, tests)

NextGen ==
  \/ \E R \in GenRequests : StartRun(R, MaxRuns)
  \/ EndRun
  \/ \E n \in Leaves, v \in {Absent} \cup Contents : EditLeaf(n, v, MaxEdits)
  \/ \E n \in FileNodes : DeleteTarget(n, MaxEdits)
  \/ \E i \in DOMAIN coros : StepStart(i)
  \/ \E i \in DOMAIN coros : StepSignal(i)
  \/ \E i \in DOMAIN coros : StepStatic(i)
  \/ \E i \in DOMAIN coros : StepDynamic(i)

SpecGen == InitGen /\ [][NextGen]_vars

\* SpecCycle: one run of the description in which B1 and B2 depend on each
\* other, for each node with a builder, under every schedule.
CycleRequests == {{"m"}, {"t"}, {"r"}}

InitCycle ==
  /\ layout = "cycle"
  /\ desc = ChainDesc
  /\ dep = DepEmpty
  /\ sch = SchedIdle
  /\ kind \in {"copy", "const"}
  /\ jobs \in {1, 2}
  /\ bhash \in {[b \in Builders |-> IF b = "B1" THEN v ELSE NoHash] :
                  v \in {NoHash, 1}}
  /\ disk \in {[n \in FileNodes |-> IF n = "s" THEN v
                                    ELSE IF n = "h" THEN 1 ELSE Absent] :
                 v \in {Absent} \cup Contents}
  /\ prim = [b \in Builders |-> EmptySha]
  /\ catf = [b \in Builders |-> [c \in Cats |-> NoCatFile]]
  /\ bhf = [b \in Builders |-> NoFile]
  /\ phase = "idle" /\ runs = 0 /\ edits = 0
  /\ req = {} /\ lastReq = {} /\ prevOK = FALSE /\ changed = FALSE
  /\ prevRes = {}
  /\ noop = FALSE /\ lastEdit = "none"
  /\ cache0 = [prim |-> prim, catf |-> catf, bhf |-> bhf]
  /\ Fresh(coros, executed, bexc, sig, dynsrc, regfiles, sha, dfiles,
           memo, sem, execCount, execRes, why, tests)

NextCycle ==
  \/ \E R \in CycleRequests : StartRun(R, FanRuns)
  \/ \E i \in DOMAIN coros : StepStart(i)

SpecCycle == InitCycle /\ [][NextCycle]_vars

\* Builder.add_src (lines 1571-1574), reached from Rule.__lshift__ (lines
\* 2483-2489): the drakefile, or a hook or an execute() of the
\* description while the build runs, appends the node n to the rule r.
AddSrc(n) ==
  /\ ~Stopped
  /\ n \notin Sources("B3")
  /\ desc' = [desc EXCEPT !.objs[desc.registry[n]].consumers =
                             @ \cup {BuilderId("B3")}]
  /\ UNCHANGED engineVars

\* SpecLate: one run of the chain, with every request, during or before
\* which the leaves are appended to the rule.
InitLate ==
  /\ layout = "late"
  /\ desc = ChainDesc
  /\ dep = DepEmpty
  /\ sch = SchedIdle
  /\ kind = "copy" /\ jobs = 1
  /\ bhash = [b \in Builders |-> NoHash]
  /\ disk \in {[n \in FileNodes |-> IF n = "s" THEN v
                                    ELSE IF n = "h" THEN 1 ELSE Absent] :
                 v \in {Absent} \cup Contents}
  /\ prim = [b \in Builders |-> EmptySha]
  /\ catf = [b \in Builders |-> [c \in Cats |-> NoCatFile]]
  /\ bhf = [b \in Builders |-> NoFile]
  /\ phase = "idle" /\ runs = 0 /\ edits = 0
  /\ req = {} /\ lastReq = {} /\ prevOK = FALSE /\ changed = FALSE
  /\ prevRes = {}
  /\ noop = FALSE /\ lastEdit = "none"
  /\ cache0 = [prim |-> prim, catf |-> catf, bhf |-> bhf]
  /\ Fresh(coros, executed, bexc, sig, dynsrc, regfiles, sha, dfiles,
           memo, sem, execCount, execRes, why, tests)

NextLate ==
  \/ \E R \in Requests : StartRun(R, FanRuns)
  \/ \E n \in Leaves : AddSrc(n)
  \/ \E i \in DOMAIN coros : StepStart(i)
  \/ \E i \in DOMAIN coros : StepSignal(i)
  \/ \E i \in DOMAIN coros : StepStatic(i)
  \/ \E i \in DOMAIN coros : StepDynamic(i)

SpecLate == InitLate /\ [][NextLate]_vars

\* Scheduler.run resumes one coroutine that can run: any step of NextLive
\* but StartRun and EndRun.
RunOne ==
  \E i \in DOMAIN coros :
    \/ StepStart(i)
    \/ StepSignal(i)
    \/ StepStatic(i)
    \/ StepDynamic(i)
    \/ StepExec(i)

NextLive ==
  \/ \E R \in Requests : StartRun(R, FanRuns)
  \/ EndRun
  \/ \E i \in DOMAIN coros : StepStart(i)
  \/ \E i \in DOMAIN coros : StepSignal(i)
  \/ \E i \in DOMAIN coros : StepStatic(i)
  \/ \E i \in DOMAIN coros : StepDynamic(i)
  \/ \E i \in DOMAIN coros : StepExec(i)

\* SpecLive: the runs of Spec, without edits, under a fair scheduler: as
\* long as a coroutine can run Scheduler.run resumes one, and it returns
\* or raises once none can.
SpecLive ==
  Init /\ [][NextLive]_vars /\ WF_vars(RunOne) /\ WF_vars(EndRun)

\* SpecFan: runs that request the rule of the fan description, all targets
\* missing at first, under every schedule, without and with a jobs lock.
FanRequests == {{"r"}}

InitFan ==
  /\ layout = "fan"
  /\ desc = FanDesc
  /\ dep = DepEmpty
  /\ sch = SchedIdle
  /\ kind = "const"
  /\ jobs \in {1, 2}
  /\ bhash = [b \in Builders |-> NoHash]
  /\ disk = [n \in FileNodes |-> Absent]
  /\ prim = [b \in Builders |-> EmptySha]
  /\ catf = [b \in Builders |-> [c \in Cats |-> NoCatFile]]
  /\ bhf = [b \in Builders |-> NoFile]
  /\ phase = "idle" /\ runs = 0 /\ edits = 0
  /\ req = {} /\ lastReq = {} /\ prevOK = FALSE /\ changed = FALSE
  /\ prevRes = {}
  /\ noop = FALSE /\ lastEdit = "none"
  /\ cache0 = [prim |-> prim, catf |-> catf, bhf |-> bhf]
  /\ Fresh(coros, executed, bexc, sig, dynsrc, regfiles, sha, dfiles,
           memo, sem, execCount, execRes, why, tests)

NextFan ==
  \/ \E R \in FanRequests : StartRun(R, FanRuns)
  \/ EndRun
  \/ \E i \in DOMAIN coros : StepStart(i)
  \/ \E i \in DOMAIN coros : StepStatic(i)
  \/ \E i \in DOMAIN coros : StepDynamic(i)
  \/ \E i \in DOMAIN coros : StepLock(i)
  \/ \E i \in DOMAIN coros : StepExec(i)

SpecFan == InitFan /\ [][NextFan]_vars

\* SpecDesc: the execution of a drakefile, which constructs nodes and
\* builders and declares default nodes, followed by a build without
\* requested node.
DNames == {"s", "t"}

InitDesc ==
  /\ layout = "chain"
  /\ desc = DescEmpty
  /\ dep = DepEmpty
  /\ sch = SchedIdle
  /\ kind = "copy" /\ jobs = 1
  /\ bhash = [b \in Builders |-> NoHash]
  /\ disk = [n \in FileNodes |-> Absent]
  /\ prim = [b \in Builders |-> EmptySha]
  /\ catf = [b \in Builders |-> [c \in Cats |-> NoCatFile]]
  /\ bhf = [b \in Builders |-> NoFile]
  /\ phase = "idle" /\ runs = 0 /\ edits = 0
  /\ req = {} /\ lastReq = {} /\ prevOK = FALSE /\ changed = FALSE
  /\ prevRes = {}
  /\ noop = FALSE /\ lastEdit = "none"
  /\ cache0 = [prim |-> prim, catf |-> catf, bhf |-> bhf]
  /\ Fresh(coros, executed, bexc, sig, dynsrc, regfiles, sha, dfiles,
           memo, sem, execCount, execRes, why, tests)

NextDesc ==
  \/ \E c \in NodeClasses, n \in DNames : Construct(c, n)
  \/ \E c \in {"none", "VirtualNode"}, n \in DNames : Lookup(c, n)
  \/ \E a \in DOMAIN desc.objs, b \in {NoNode} \cup DOMAIN desc.objs :
       \E srcs \in {{}} \cup {{u} : u \in DOMAIN desc.objs \ {a, b}} :
         NewBuilder(srcs, IF b = NoNode THEN <<a>> ELSE <<a, b>>)
  \/ \E u \in DOMAIN desc.objs : AddDefault(u)
  \/ BuildAll

SpecDesc == InitDesc /\ [][NextDesc]_vars

\* SpecCopy: the drakefiles of SpecDesc that also construct Copy builders.
NextCopy ==
  \/ NextDesc
  \/ \E u \in DOMAIN desc.objs, n \in DNames : NewCopy(u, n)

SpecCopy == InitDesc /\ [][NextCopy]_vars

\* SpecSched: the five coroutines are stepped in any order, frozen or not.
InitSched ==
  /\ layout = "chain"
  /\ desc = DescEmpty
  /\ dep = DepEmpty
  /\ sch = SchedStart
  /\ kind = "copy" /\ jobs = 1
  /\ bhash = [b \in Builders |-> NoHash]
  /\ disk = [n \in FileNodes |-> Absent]
  /\ prim = [b \in Builders |-> EmptySha]
  /\ catf = [b \in Builders |-> [c \in Cats |-> NoCatFile]]
  /\ bhf = [b \in Builders |-> NoFile]
  /\ phase = "idle" /\ runs = 0 /\ edits = 0
  /\ req = {} /\ lastReq = {} /\ prevOK = FALSE /\ changed = FALSE
  /\ prevRes = {}
  /\ noop = FALSE /\ lastEdit = "none"
  /\ cache0 = [prim |-> prim, catf |-> catf, bhf |-> bhf]
  /\ Fresh(coros, executed, bexc, sig, dynsrc, regfiles, sha, dfiles,
           memo, sem, execCount, execRes, why, tests)

NextSched == \E i \in 1..Len(Progs) : SchedStep(i)

SpecSched == InitSched /\ [][NextSched]_vars

\* The state of a process that runs coroutines only: nothing is described
\* and no build has run.
NoBuild ==
  /\ layout = "chain"
  /\ desc = DescEmpty
  /\ dep = DepEmpty
  /\ kind = "copy" /\ jobs = 1
  /\ bhash = [b \in Builders |-> NoHash]
  /\ disk = [n \in FileNodes |-> Absent]
  /\ prim = [b \in Builders |-> EmptySha]
  /\ catf = [b \in Builders |-> [c \in Cats |-> NoCatFile]]
  /\ bhf = [b \in Builders |-> NoFile]
  /\ phase = "idle" /\ runs = 0 /\ edits = 0
  /\ req = {} /\ lastReq = {} /\ prevOK = FALSE /\ changed = FALSE
  /\ prevRes = {}
  /\ noop = FALSE /\ lastEdit = "none"
  /\ cache0 = [prim |-> prim, catf |-> catf, bhf |-> bhf]
  /\ Fresh(coros, executed, bexc, sig, dynsrc, regfiles, sha, dfiles,
           memo, sem, execCount, execRes, why, tests)

\* SpecSem: the coroutines that lock and unlock one semaphore are stepped
\* in any order.
InitSem ==
  /\ \E n \in 0..MaxCount : sch = SemStart(n)
  /\ NoBuild

SpecSem == InitSem /\ [][NextSched]_vars

\* SpecScope: the coroutines of one of the tests of the scopes are run in
\* any order.
InitScope ==
  /\ \E suite \in ScopeSuites : sch = ScopeStart(suite)
  /\ NoBuild

SpecScope == InitScope /\ [][NextSched]_vars

\* SpecDep: nodes are registered in a DepFile, which is written and read.
NextDep ==
  \/ \E c \in NodeClasses, str \in Strings : Register(c, str)
  \/ Update
  \/ Read

SpecDep == InitDesc /\ [][NextDep]_vars

TypeOK ==
  /\ phase \in {"idle", "running"}
  /\ \A b \in Builders : sig[b] \in {"none", "created", "fired"}
  /\ sem \in 0..jobs


\* ------------------------------------------------------------ properties
Callers(b) == {i \in DOMAIN coros : BuilderOf(coros[i].node) = b
                                     /\ coros[i].pc # "start"}

\* C1: within one driver run execute() is invoked at most once on every
\* builder, whatever the number of coroutines that call its run() and
\* whatever the jobs setting.
C1_AtMostOnce == \A b \in Builders : execCount[b] <= 1

\* C1 witness: a builder was executed once although two coroutines called
\* its run() in the same run.
C1_Witness ==
  \E b \in Builders : execCount[b] = 1 /\ Cardinality(Callers(b)) >= 2

\* C2: while a coroutine runs builder B, every other coroutine that called
\* B.run() is suspended on B's signal and runs no later step of the
\* protocol; once resumed it ends as B ended: normally if B has no stored
\* exception, with B's stored exception otherwise.
C2_WaitersCoalesce ==
  \A b \in Builders :
    /\ Cardinality({i \in Callers(b) : coros[i].role = "runner"}) <= 1
    /\ \A i \in Callers(b) :
         /\ (sig[b] = "created" /\ ~executed[b] /\ coros[i].role # "runner")
              => coros[i].pc = "waitsig"
         /\ coros[i].role = "waiter" =>
              \/ coros[i].pc = "waitsig"
              \/ coros[i].pc = "done" /\ executed[b] /\ coros[i].exc = bexc[b]

\* C2 witness: a waiter resumed with the stored exception of the builder
\* another coroutine ran and that failed.
C2_Witness ==
  \E i \in DOMAIN coros : coros[i].role = "waiter" /\ coros[i].pc = "done"
                           /\ coros[i].exc = "Failed"
                           /\ bexc[BuilderOf(coros[i].node)] = "Failed"

\* C3: a run that follows a successful run of the same request, with no
\* change in between, invokes execute() on no builder.
C3_NoopRun == noop => \A b \in Builders : execCount[b] = 0


\* The run is over and every coroutine ended without exception.
RunOK == phase = "running" /\ coros # <<>> /\ AllDone /\ ~Stopped

ExecutedSet == {b \in Builders : execCount[b] > 0}

\* The sources of b: static ones, and dynamic ones recorded in the category
\* files b had when the run started.
Deps(b) ==
  Sources(b) \cup {n \in Nodes : \E c \in Cats : cache0.catf[b][c].exists
                                   /\ cache0.catf[b][c].sha[n] # NoRec}

RECURSIVE Reaches(_, _)
Reaches(n, S) ==
  \/ n = S
  \/ BuilderOf(n) # NoB /\ \E d \in Deps(BuilderOf(n)) : Reaches(d, S)

\* Builders on a dependency path from leaf S to a requested node.
OnPath(S, R) ==
  {b \in Builders : /\ \E d \in Deps(b) : Reaches(d, S)
                    /\ \E x \in R : \E y \in Targets(b) : Reaches(x, y)}

\* A successful run that requests what the previous successful run
\* requested, after the bytes of one leaf were modified and nothing else;
\* every command executed wrote its target.
OneLeafModified ==
  /\ RunOK /\ prevOK /\ lastReq = req /\ lastEdit \in Leaves
  /\ \E x \in req : Reaches(x, lastEdit)
  /\ \A b \in Builders : execRes[b] \in {"none", "true"}

PrimOutdated(b) ==
  \E n \in FileNodes : cache0.prim[b][n] # NoRec /\ disk[n] # Absent
                        /\ cache0.prim[b][n] # Sha1(disk[n])

CatOutdated(b) ==
  \E c \in Cats, n \in FileNodes :
    /\ cache0.catf[b][c].exists /\ cache0.catf[b][c].sha[n] # NoRec
    /\ disk[n] # Absent /\ cache0.catf[b][c].sha[n] # Sha1(disk[n])

RunnerEnded(b, e) ==
  \E i \in Callers(b) : coros[i].role = "runner" /\ coros[i].pc = "done"
                         /\ coros[i].exc = e

SourcesAsRecorded(b) ==
  \A n \in Sources(b) : n \in FileNodes /\ disk[n] # Absent
                         /\ cache0.prim[b][n] = Sha1(disk[n])

\* C5: when run() reaches the staleness decision while a file target of
\* the builder is missing, execute() is invoked in that run.
C5_MissingTargetExecutes ==
  \A b \in Builders : (why[b].reached /\ why[b].missing) => execCount[b] >= 1

\* C5 witness: the target is missing although every source is as recorded
\* and the builder hash matches, and the builder was executed.
C5_Witness ==
  \E b \in Builders :
    /\ why[b].reached /\ why[b].missing /\ ~why[b].newsrc /\ ~why[b].bhstale
    /\ ~why[b].dynfail /\ SourcesAsRecorded(b) /\ ~CatOutdated(b)
    /\ execCount[b] = 1

\* C6: a builder whose hash is not null and differs from the persisted
\* drake.Builder file, or has no such file, is executed; after a successful
\* execution the file holds that hash, and a following run with nothing
\* changed does not find the builder hash outdated.
C6_BuilderHash ==
  \A b \in Builders :
    /\ (why[b].reached /\ why[b].bhstale) => execCount[b] >= 1
    /\ (execCount[b] >= 1 /\ RunnerEnded(b, NoExc) /\ bhash[b] # NoHash)
         => bhf[b] = bhash[b]
    /\ (noop /\ why[b].reached) => ~why[b].bhstale

\* C6 witness: only the builder hash differs from the persisted one; the
\* builder was executed and the file now holds the new hash.
C6_Witness ==
  \E b \in Builders :
    /\ why[b].reached /\ why[b].bhstale /\ ~why[b].missing /\ ~why[b].newsrc
    /\ ~why[b].dynfail /\ SourcesAsRecorded(b)
    /\ cache0.bhf[b] \notin {NoFile, bhash[b]}
    /\ execCount[b] = 1 /\ RunnerEnded(b, NoExc) /\ bhf[b] = bhash[b]

\* C7: once execute() returned false the builder is executed, stores
\* Failed, its signal has fired, and every coroutine that called its run()
\* ends with Failed: the runner, the waiters and the later callers.
C7_FailedReachesAll ==
  \A b \in Builders : execRes[b] = "false" =>
    /\ executed[b] /\ bexc[b] = "Failed" /\ sig[b] = "fired"
    /\ RunnerEnded(b, "Failed")
    /\ \A i \in Callers(b) :
         \/ coros[i].pc = "done" /\ coros[i].exc = "Failed"
         \/ coros[i].pc = "waitsig"

\* C7 witness: a coroutine called run() after the builder had failed and
\* got Failed.
C7_Witness ==
  \E i \in DOMAIN coros :
    /\ coros[i].role = "late" /\ coros[i].pc = "done" /\ coros[i].exc = "Failed"
    /\ execRes[BuilderOf(coros[i].node)] = "false"

\* The build of static source n of a builder has failed.
SourceFailed(n) ==
  IF BuilderOf(n) = NoB THEN Missing(n, disk)
  ELSE executed[BuilderOf(n)] /\ bexc[BuilderOf(n)] # NoExc

\* C8: if the build of a static source of B failed, before run() started
\* or while B waited for it, B.execute() is not invoked and B.run() raises.
C8_StaticFailurePropagates ==
  \A b \in Builders :
    (\E n \in Sources(b) : SourceFailed(n)) =>
      /\ execCount[b] = 0
      /\ \A i \in Callers(b) : coros[i].pc = "done" => coros[i].exc # NoExc

\* C9: whatever exception ends the run of B, B is left executed with a
\* stored exception and a fired signal, and no caller of B.run() observes
\* B as built.
C9_AnyExceptionStored ==
  \A b \in Builders :
    (\E e \in Excs : RunnerEnded(b, e)) =>
      /\ executed[b] /\ bexc[b] # NoExc /\ sig[b] = "fired"
      /\ \A i \in Callers(b) : coros[i].pc = "done" => coros[i].exc # NoExc

Cache(b) == [prim |-> prim[b], catf |-> catf[b], bhf |-> bhf[b]]
CacheAtStart(b) ==
  [prim |-> cache0.prim[b], catf |-> cache0.catf[b], bhf |-> cache0.bhf[b]]

\* C10: the DepFiles and the builder-hash file of B change only in a step
\* in which execute() returned true and every file target exists; a run in
\* which B is found up to date or ends done-failed leaves them as they were.
C10_WrittenOnlyAfterSuccess ==
  /\ [][\A b \in Builders :
          (prim'[b] # prim[b] \/ catf'[b] # catf[b] \/ bhf'[b] # bhf[b]) =>
            /\ execRes'[b] \in {"true", "nofile"}
            /\ \A d \in Targets(b) : ~Missing(d, disk')]_vars
  /\ [](\A b \in Builders :
          (executed[b] /\ (execCount[b] = 0 \/ bexc[b] # NoExc)) =>
            Cache(b) = CacheAtStart(b))

\* C10 witness: a builder with persisted records was executed, failed, and
\* its records are those of the start of the run.
C10_Witness ==
  \E b \in Builders :
    /\ executed[b] /\ bexc[b] = "Failed" /\ execCount[b] = 1
    /\ cache0.prim[b] # EmptySha /\ Cache(b) = CacheAtStart(b)

\* C11: once execute() returned true while a file target of the builder
\* does not exist, the builder is executed with the fatal drake.Exception
\* stored, its signal has fired, every caller of run() that ended ended
\* with that exception, and its DepFiles and builder-hash file are those of
\* the start of the run.
C11_FatalOnMissingTarget ==
  \A b \in Builders :
    (execRes[b] \in {"true", "nofile"} /\ \E d \in Targets(b) : Missing(d, disk))
      => /\ executed[b] /\ bexc[b] = "Fatal" /\ sig[b] = "fired"
         /\ RunnerEnded(b, "Fatal")
         /\ \A i \in Callers(b) :
              \/ coros[i].pc = "done" /\ coros[i].exc = "Fatal"
              \/ coros[i].pc = "waitsig"
         /\ Cache(b) = CacheAtStart(b)

\* C11 witness: a command returned true without creating its target and a
\* coroutine other than the runner got the fatal error from the builder.
C11_Witness ==
  \E b \in Builders :
    /\ execRes[b] = "nofile" /\ \E d \in Targets(b) : Missing(d, disk)
    /\ \E i \in Callers(b) : coros[i].role # "runner" /\ coros[i].pc = "done"
                              /\ coros[i].exc = "Fatal"

\* C12: the build of a file node without builder ends with NoBuilder when
\* its file does not exist and normally when it exists, and the step that
\* builds it runs no builder: no flag, signal, execution count, file or
\* coroutine changes.
C12_LeafBuild ==
  /\ [](\A i \in DOMAIN coros : coros[i].role = "leaf" =>
          /\ coros[i].pc = "done"
          /\ coros[i].exc = IF Missing(coros[i].node, disk)
                              THEN "NoBuilder" ELSE NoExc)
  /\ [][\A i \in DOMAIN coros :
          (/\ coros[i].pc = "start" /\ BuilderOf(coros[i].node) = NoB
           /\ i \in DOMAIN coros' /\ coros'[i].pc = "done")
            => /\ executed' = executed /\ sig' = sig /\ bexc' = bexc
               /\ execCount' = execCount /\ diskVars' = diskVars
               /\ Len(coros') = Len(coros)]_vars

\* C12 witness: the build of a leaf whose file exists ended normally.
C12_Witness ==
  \E i \in DOMAIN coros : /\ coros[i].role = "leaf" /\ coros[i].pc = "done"
                           /\ coros[i].exc = NoExc
                           /\ ~Missing(coros[i].node, disk)

\* C13: every node constructed is the node the registry holds for its
\* name, so that no two nodes share an absolute name; the construction of a
\* node whose name is registered changes neither the registry nor the
\* nodes, returns the registered node when it is of the requested class
\* and fails when it is of another class.
C13_RegistryUnique ==
  /\ [](\A u \in DOMAIN desc.objs : desc.registry[desc.objs[u].name] = u)
  /\ [][\A n \in Nodes :
          (/\ desc.registry[n] # NoNode /\ desc' # desc
           /\ desc'.last.op = "construct" /\ desc'.last.name = n)
            => /\ desc'.registry = desc.registry /\ desc'.objs = desc.objs
               /\ IF desc.objs[desc.registry[n]].class = desc'.last.class
                    THEN /\ desc'.last.res = "existing"
                         /\ desc'.last.uid = desc.registry[n]
                    ELSE desc'.last.res = "AssertionError"]_vars

\* C13 witness: with two nodes registered, the construction of a node of
\* another class under a registered name failed.
C13_Witness ==
  /\ Len(desc.objs) = 2
  /\ desc.last.op = "construct" /\ desc.last.res = "AssertionError"
  /\ desc.registry[desc.last.name] # NoNode
  /\ desc.objs[desc.registry[desc.last.name]].class # desc.last.class

Registered == {dep.files[k] : k \in DOMAIN dep.files}

RuleRunners ==
  {i \in DOMAIN coros : coros[i].node = "r" /\ coros[i].role = "runner"}

\* C16: in the fan description, when the run of the rule's builder is over
\* the builders of its three sources have all been run and every one whose
\* execute() succeeded has created its target; when B2's execute() returned
\* false and B1 and B3 ended without error, the run of the rule's builder
\* ends with the failure of B2.
C16_SiblingsFinishBeforeFailure ==
  Fan =>
    \A i \in RuleRunners :
      coros[i].pc = "done"
        => /\ \A b \in CmdBuilders :
                /\ executed[b]
                /\ execRes[b] = "true" => \A d \in Targets(b) : disk[d] # Absent
           /\ (/\ execRes["B2"] = "false"
               /\ bexc["B1"] = NoExc /\ bexc["B3"] = NoExc)
                => coros[i].exc = "Failed" /\ bexc["B2"] = "Failed"

\* C16 witness: the rule's builder ended with the failure of B2 after B1
\* and B3 executed and created their targets, from a state where all the
\* targets were missing.
C16_Witness ==
  /\ Fan /\ runs = 1
  /\ \E i \in RuleRunners : coros[i].pc = "done" /\ coros[i].exc = "Failed"
  /\ execRes["B2"] = "false" /\ disk["t"] = Absent
  /\ execRes["B1"] = "true" /\ execRes["B3"] = "true"
  /\ disk["m"] # Absent /\ disk["x"] # Absent

\* The coroutines whose command is in flight.
InFlight == {i \in DOMAIN coros : coros[i].pc = "exec"}

\* C17: with jobs > 1 at most jobs commands are in flight and the count of
\* the lock is jobs minus their number, hence jobs when none is in flight;
\* a coroutine suspends on the lock only when jobs commands are in flight
\* and leaves it only when fewer are.
C17_JobsCap ==
  /\ [](jobs > 1 => /\ Cardinality(InFlight) <= jobs
                    /\ sem = jobs - Cardinality(InFlight))
  /\ [][jobs > 1 =>
          \A i \in DOMAIN coros :
            /\ (i \in DOMAIN coros' /\ coros'[i].pc = "waitlock"
                /\ coros[i].pc # "waitlock")
                 => Cardinality(InFlight) = jobs
            /\ (i \in DOMAIN coros' /\ coros[i].pc = "waitlock"
                /\ coros'[i].pc # "waitlock")
                 => /\ Cardinality(InFlight) < jobs
                    /\ coros'[i].pc = "exec"]_vars

\* C17 witness: with jobs = 2, two commands are in flight and a third
\* builder is suspended on the lock.
C17_Witness ==
  /\ jobs = 2 /\ Cardinality(InFlight) = 2 /\ sem = 0
  /\ \E i \in DOMAIN coros : coros[i].pc = "waitlock"

\* Coroutine j went through an instruction of kind op (on arg).
Passed(j, op, arg) ==
  \E k \in 1..(sch.co[j].pc - 1) : Progs[j][k] = Ins(op, arg)

\* Coroutine j is stepped.
Stepped(j) == sch' # sch /\ sch'.last.who = j

\* C19: a coroutine that waited for the signal is frozen exactly as long
\* as the signal has not fired; the signal fires once, and firing it makes
\* every coroutine waiting for it ready; a frozen coroutine runs no code; a
\* coroutine that waits for the signal after it fired is not suspended and
\* goes on in the same step.
C19_SignalBroadcast ==
  /\ [](\A j \in DOMAIN sch.co :
          Passed(j, "waitsig", 0) => (sch.co[j].frozen <=> ~sch.fired))
  /\ [][/\ sch.fired => sch'.fired
        /\ (~sch.fired /\ sch'.fired)
             => \A j \in SigWaiters(sch) : ~sch'.co[j].frozen
        /\ \A j \in DOMAIN sch.co :
             /\ sch.co[j].frozen => sch'.co[j].pc = sch.co[j].pc
             /\ (/\ Stepped(j) /\ sch.fired /\ ~sch.co[j].frozen
                 /\ sch.co[j].pc <= Len(Progs[j])
                 /\ Progs[j][sch.co[j].pc].op = "waitsig")
                  => /\ ~sch'.co[j].frozen
                     /\ sch'.co[j].pc > sch.co[j].pc + 1]_vars

\* C19 witness: the signal has fired and the two coroutines that were
\* waiting for it are ready, neither having run since.
C19_Witness ==
  /\ sch.co # <<>> /\ sch.fired
  /\ \A j \in {4, 5} : /\ Passed(j, "waitsig", 0)
                       /\ ~sch.co[j].frozen /\ ~sch.co[j].done

\* C20: a coroutine that waited for a coroutine is frozen exactly as long
\* as that coroutine is not done; the step of a frozen coroutine raises
\* CoroutineFrozen and changes nothing else; the step of a coroutine that
\* is no longer frozen runs the code that follows the wait.
C20_FrozenUntilDone ==
  /\ [](\A j \in DOMAIN sch.co : \A c \in DOMAIN sch.co :
          Passed(j, "wait", c) => (sch.co[j].frozen <=> ~sch.co[c].done))
  /\ [][\A j \in DOMAIN sch.co :
          /\ (Stepped(j) /\ sch.co[j].frozen)
               => /\ sch'.last.res = "CoroutineFrozen"
                  /\ sch'.co = sch.co /\ sch'.beacon = sch.beacon
                  /\ sch'.fired = sch.fired
          /\ (Stepped(j) /\ ~sch.co[j].frozen /\ ~sch.co[j].done
              /\ \E c \in DOMAIN sch.co : Passed(j, "wait", c))
               => /\ sch'.last.res = "ran"
                  /\ sch'.beacon = Progs[j][sch.co[j].pc].arg
                  /\ sch'.co[j].done]_vars

\* C20 witness: the waiting coroutine was stepped while frozen, after a
\* first step of the coroutine it waits for.
C20_Witness ==
  /\ sch.co # <<>>
  /\ sch.last = [who |-> 2, res |-> "CoroutineFrozen"]
  /\ sch.co[2].frozen /\ sch.co[1].pc = 3 /\ ~sch.co[1].done
  /\ sch.beacon = 1

\* The locks coroutine j holds: those it went through, less the one it is
\* suspended in.
Acquired(j) ==
  Cardinality({k \in 1..(sch.co[j].pc - 1) : Progs[j][k].op = "lock"})
    - (IF \E k \in DOMAIN sch.semq : sch.semq[k] = j THEN 1 ELSE 0)

\* The unlocks coroutine j went through.
Released(j) ==
  Cardinality({k \in 1..(sch.co[j].pc - 1) : Progs[j][k].op = "unlock"})

RECURSIVE Sum(_, _)
Sum(f, S) ==
  IF S = {} THEN 0
  ELSE LET x == CHOOSE y \in S : TRUE IN f[x] + Sum(f, S \ {x})

\* Coroutine j is about to run instruction op.
AtOp(j, op) ==
  /\ ~sch.co[j].frozen /\ ~sch.co[j].done
  /\ sch.co[j].pc <= Len(Progs[j])
  /\ Progs[j][sch.co[j].pc].op = op

\* The coroutines suspended in a lock.
Lockers == {j \in DOMAIN sch.co :
              sch.co[j].frozen /\ WaitsIn(sch, j).op = "lock"}

\* C21: the count of the semaphore is never negative, and it is its
\* initial value plus the unlocks that ran less the locks that are held, so
\* that it is back to its initial value once every coroutine has ended; a
\* lock on a positive count goes on in the same step, a lock on a count of
\* zero suspends the caller, and one step, which runs at most one unlock,
\* releases at most one suspended locker.
C21_SemaphoreCount ==
  /\ [](/\ sch.count >= 0
        /\ sch.count = sch.count0
             + Sum([j \in DOMAIN sch.co |-> Released(j)], DOMAIN sch.co)
             - Sum([j \in DOMAIN sch.co |-> Acquired(j)], DOMAIN sch.co)
        /\ (\A j \in DOMAIN sch.co : sch.co[j].done)
             => sch.count = sch.count0)
  /\ [][/\ \A j \in DOMAIN sch.co :
             (Stepped(j) /\ AtOp(j, "lock"))
               => IF sch.count > 0
                    THEN sch'.co[j].pc > sch.co[j].pc + 1 \/ sch'.co[j].done
                    ELSE /\ sch'.co[j].frozen
                         /\ sch'.co[j].pc = sch.co[j].pc + 1
                         /\ sch'.count = 0
        /\ Cardinality({j \in Lockers : ~sch'.co[j].frozen}) <= 1
        /\ (\E j \in Lockers : ~sch'.co[j].frozen)
             => \E i \in DOMAIN sch.co : Stepped(i) /\ AtOp(i, "unlock")]_vars

\* C21 witness: two coroutines were suspended in a lock, one unlock ran
\* and exactly one of them is ready again, the count being zero.
C21_Witness ==
  /\ sch.suite = "sem" /\ sch.count = 0
  /\ Len(sch.semq) = 1
  /\ \E j \in DOMAIN sch.co :
       /\ ~sch.co[j].frozen /\ ~sch.co[j].done
       /\ sch.co[j].pc > 1 /\ WaitsIn(sch, j).op = "lock"
       /\ Acquired(j) >= 1
  /\ Released(2) >= 1

\* The other children of the scope coroutine j is a child of.
Siblings(j) ==
  UNION {sch.co[pd[1]].blocks[pd[2]].kids : pd \in Owners(sch, j)} \ {j}

\* The step of coroutine j ends it with exception e.
EndsWith(j, e) ==
  /\ Stepped(j) /\ ~sch.co[j].done
  /\ sch'.co[j].done /\ sch'.co[j].exc = e

\* The step of a cancelled coroutine runs none of its code.
CancelledRunsNothing ==
  \A k \in DOMAIN sch.co :
    (Stepped(k) /\ sch.co[k].throw = Terminate /\ ~sch.co[k].frozen)
      => /\ sch'.beacon = sch.beacon
         /\ sch'.co[k].pc = sch.co[k].pc
         /\ sch.co[k].blocks = <<>>
              => sch'.co[k].done /\ sch'.co[k].exc = Terminate

\* Coroutine p waits in the exit of a scope that captured exception e.
ExitsWith(p, e) ==
  /\ sch.co[p].blocks # <<>>
  /\ Innermost(sch.co[p].blocks).exiting
  /\ Innermost(sch.co[p].blocks).exc = e

\* C22: when a child of a scope ends with BeaconException, the scope
\* captures it and every other child that has not ended is cancelled and
\* ready; the step of a cancelled coroutine runs none of its code and ends
\* it; the owner stays frozen until every child has ended, and its next
\* step raises the exception out of the scope: it ends the owner unless a
\* block of the owner expects it, and it is raised out of Scheduler.run
\* when the owner is in no scope.  In test_fwd_exception the exception of
\* raiser ends subcoro and is caught in coro; in test_continue_raise it is
\* raised out of Scheduler.run and each waiter has ended, cancelled or
\* before the thrower ran.
C22_ChildRaiseCancelsSiblings ==
  /\ [][/\ \A j \in DOMAIN sch.co :
             (EndsWith(j, BeaconException) /\ Owners(sch, j) # {})
               => /\ \A k \in Siblings(j) :
                       ~sch.co[k].done
                         => /\ sch'.co[k].throw = Terminate
                            /\ ~sch'.co[k].frozen /\ ~sch'.co[k].done
                            /\ sch'.co[k].pc = sch.co[k].pc
                  /\ \A pd \in Owners(sch, j) :
                       sch'.co[pd[1]].blocks[pd[2]].exc = BeaconException
                  /\ sch'.beacon = sch.beacon
        /\ CancelledRunsNothing
        /\ \A p \in DOMAIN sch.co :
             /\ (ExitsWith(p, BeaconException) /\ sch.co[p].frozen)
                  => \E k \in Innermost(sch.co[p].blocks).kids :
                       ~sch.co[k].done
             /\ (/\ Stepped(p) /\ ExitsWith(p, BeaconException)
                 /\ ~sch.co[p].frozen /\ sch.co[p].throw = NoExc)
                  => /\ sch'.co[p].done
                     /\ sch'.co[p].exc =
                          IF \E d \in DOMAIN sch.co[p].blocks :
                               sch.co[p].blocks[d].type = "try"
                            THEN NoExc ELSE BeaconException
                     /\ sch'.raised =
                          IF Owners(sch, p) = {} /\ sch'.co[p].exc # NoExc
                            THEN BeaconException ELSE NoExc]_vars
  /\ [](sch.suite = "fwd" /\ sch.co[1].done
          => /\ sch.co[1].exc = NoExc /\ sch.raised = NoExc
             /\ sch.co[2].exc = BeaconException
             /\ sch.co[3].exc = BeaconException)
  /\ [](sch.suite = "continue"
          => /\ sch.co[1].done
                  => /\ sch.raised = BeaconException
                     /\ \A k \in {3, 4} : sch.co[k].done
             /\ sch.beacon
                  = Cardinality({k \in {3, 4} : /\ sch.co[k].done
                                                 /\ sch.co[k].exc = NoExc}))

\* C22 witness: in test_continue_raise the exception of the thrower was
\* raised out of Scheduler.run, and both waiters ended cancelled, one of
\* them at a yield, the other before it ran at all.
C22_Witness ==
  /\ sch.suite = "continue" /\ sch.raised = BeaconException
  /\ sch.co[1].exc = BeaconException /\ sch.beacon = 0
  /\ sch.co[3].exc = Terminate /\ sch.co[3].pc = 3
  /\ sch.co[4].exc = Terminate /\ sch.co[4].pc = 1

\* The body of the scope of main has raised.
BodyRaised ==
  /\ sch.suite \in {"break", "starting"}
  /\ sch.co[1].pc > 1 /\ Progs[1][sch.co[1].pc - 1].op = "raise"

\* C23: the step in which the body of the scope raises cancels every
\* child that has not ended, leaves each where it stands and suspends main
\* in the exit of the scope; from then on the beacon does not change: the
\* step of a cancelled child runs none of its code and ends it, whether
\* the child was suspended at a yield or had never run; once main has
\* ended, BeaconException is raised out of Scheduler.run and the child has
\* ended cancelled.  In test_terminate_starting the beacon is never
\* incremented.
C23_BodyRaiseTerminatesChildren ==
  /\ [][/\ (~BodyRaised /\ BodyRaised')
             => /\ Stepped(1)
                /\ \A k \in DOMAIN sch.co :
                     (k # 1 /\ sch'.co[k].born /\ ~sch.co[k].done)
                       => /\ sch'.co[k].throw = Terminate
                          /\ ~sch'.co[k].frozen /\ ~sch'.co[k].done
                          /\ sch.co[k].born
                               => sch'.co[k].pc = sch.co[k].pc
                /\ sch'.co[1].frozen /\ ~sch'.co[1].done
                /\ sch'.raised = NoExc
        /\ BodyRaised
             => /\ sch'.beacon = sch.beacon
                /\ \A k \in DOMAIN sch.co :
                     (k # 1 /\ Stepped(k) /\ ~sch.co[k].frozen)
                       => /\ sch'.co[k].done /\ sch'.co[k].exc = Terminate
                          /\ sch'.co[k].pc = sch.co[k].pc
                          /\ ~sch'.co[1].frozen
                /\ (Stepped(1) /\ ~sch.co[1].frozen)
                     => /\ sch'.co[1].done
                        /\ sch'.raised = BeaconException]_vars
  /\ [](sch.suite \in {"break", "starting"}
          => /\ sch.co[1].done
                  => /\ sch.raised = BeaconException
                     /\ sch.co[1].exc = BeaconException
                     /\ sch.co[2].done /\ sch.co[2].exc = Terminate
             /\ (sch.co[1].frozen /\ BodyRaised) => ~sch.co[2].done
             /\ sch.suite = "starting" => sch.beacon = 0)

\* C23 witness: in test_break_scope the incrementer ran twice and was
\* suspended at its yield when the body raised; it ended cancelled and the
\* exception was raised out of Scheduler.run.
C23_Witness ==
  /\ sch.suite = "break" /\ sch.raised = BeaconException
  /\ sch.co[2].exc = Terminate /\ sch.co[2].pc = 3 /\ sch.beacon = 2

\* C23 witness for a child that never ran: test_terminate_starting.
C23_WitnessStarting ==
  /\ sch.suite = "starting" /\ sch.raised = BeaconException
  /\ sch.co[2].exc = Terminate /\ sch.co[2].pc = 1

\* Coroutine i waits: on the signal of a builder that has not fired, or
\* on coroutines that are not all done.
Blocked(i) ==
  \/ coros[i].pc = "waitsig" /\ sig[BuilderOf(coros[i].node)] # "fired"
  \/ coros[i].pc \in {"waitstatic", "waitdyn"} /\ ~KidsDone(i)

\* The builders whose run waits for the run of another builder to end: as
\* its runner, through the coroutine of a source, or on its signal.
Awaits ==
  {bb \in Builders \X Builders :
     /\ bb[1] # bb[2]
     /\ \E i \in DOMAIN coros : \E k \in coros[i].kids :
          /\ coros[i].pc = "waitstatic" /\ BuilderOf(coros[i].node) = bb[1]
          /\ BuilderOf(coros[k].node) = bb[2] /\ Blocked(k)}

\* C24: no state of a run has every coroutine that is not done waiting,
\* two builders waiting for each other's end among them, without the run
\* having raised.
C24_CycleIsFatal ==
  ~(/\ phase = "running" /\ ~Stopped
    /\ \A i \in DOMAIN coros : coros[i].pc = "done" \/ Blocked(i)
    /\ \E bb \in Awaits : <<bb[2], bb[1]>> \in Awaits)

\* C25: when run() reaches the staleness decision while a static source
\* of the builder has no record in its primary DepFile, execute() is
\* invoked in that run.
C25_NewSourceExecutes ==
  \A b \in Builders : (why[b].reached /\ why[b].newsrc) => execCount[b] >= 1

\* C25 witness: a static source has no record, although no target is
\* missing, no recorded hash differs, the builder hash is not outdated and
\* every dynamic source was built; the builder was executed.
C25_Witness ==
  \E b \in Builders :
    /\ why[b].reached /\ why[b].newsrc /\ ~why[b].missing /\ ~why[b].bhstale
    /\ ~why[b].dynfail /\ ~PrimOutdated(b) /\ ~CatOutdated(b)
    /\ \E p \in Sources(b) : cache0.prim[b][p] = NoRec
    /\ execCount[b] = 1

\* The nodes recorded in the category files b had when the run started.
CatRecorded(b) ==
  {n \in Nodes : \E c \in Cats : /\ cache0.catf[b][c].exists
                                  /\ cache0.catf[b][c].sha[n] # NoRec}

\* C26: when run() reaches the staleness decision, every node recorded in
\* a category file of the builder is among its dynamic sources again; and
\* when the hash of one of them, which is there, differs from the recorded
\* hash, execute() is invoked in that run.
C26_DynamicSourceChanged ==
  \A b \in Builders :
    why[b].reached =>
      /\ CatRecorded(b) \subseteq why[b].dynsrc
      /\ CatOutdated(b) => execCount[b] >= 1

\* C26 witness: B2 registered h under "hdr" in a run that succeeded, the
\* bytes of h were modified, and in the next run B2 was executed although
\* no target is missing and its static source is as recorded.
C26_Witness ==
  /\ prevOK /\ lastEdit = "h" /\ why["B2"].reached
  /\ "h" \in CatRecorded("B2") /\ "h" \in why["B2"].dynsrc
  /\ CatOutdated("B2") /\ ~PrimOutdated("B2") /\ SourcesAsRecorded("B2")
  /\ ~why["B2"].missing /\ ~why["B2"].newsrc /\ ~why["B2"].bhstale
  /\ ~why["B2"].dynfail /\ execCount["B2"] = 1

\* C27: when the only change since a run that succeeded is the deletion
\* of the category file B2 had written (no other builder writes one), and
\* the run of B2 reaches the staleness decision, execute() is invoked.
C27_DeletedCategoryExecutes ==
  (prevOK /\ lastEdit = "catfile" /\ why["B2"].reached)
    => execCount["B2"] >= 1

\* C28: when run() reaches the staleness decision while the hash of the
\* builder is null and a drake.Builder file is in its cachedir, execute()
\* is invoked in that run, and the file is gone once the run of the
\* builder has ended normally.
C28_NullHashStaleFile ==
  \A b \in Builders :
    (why[b].reached /\ bhash[b] = NoHash /\ cache0.bhf[b] # NoFile)
      => /\ execCount[b] >= 1
         /\ RunnerEnded(b, NoExc) => bhf[b] = NoFile

\* C30: once execute() has succeeded and run() has ended normally, the
\* cachedir of the builder holds a category file only for the categories
\* under which a dynamic source was registered during that execution.
C30_StaleCategoriesPruned ==
  \A b \in Builders :
    (execCount[b] >= 1 /\ RunnerEnded(b, NoExc))
      => \A c \in Cats : catf[b][c].exists => dfiles[b][c].present

\* The run of its builder by coroutine i has ended, and the build of one
\* of the dynamic sources it waited for raised.
DynFailed(i) ==
  /\ coros[i].role = "runner" /\ coros[i].pc = "done"
  /\ \E k \in coros[i].kids :
       /\ coros[k].node \notin Sources(BuilderOf(coros[i].node))
       /\ coros[k].exc # NoExc

\* C29: when the build of a dynamic source of a builder raised, the
\* builder was executed in that run, and its run ended as that execution
\* did: with Failed if execute() returned false, with the fatal exception
\* if a target was not created, normally otherwise.
C29_DynamicFailureExecutes ==
  \A i \in DOMAIN coros :
    DynFailed(i) =>
      LET b == BuilderOf(coros[i].node)
      IN /\ execCount[b] >= 1
         /\ coros[i].exc =
              IF execRes[b] = "false" THEN "Failed"
              ELSE IF \E d \in Targets(b) : Missing(d, disk) THEN "Fatal"
              ELSE NoExc

\* The coroutines the runner i spawned for its static and virtual sources,
\* and those it spawned for its dynamic sources.
StaticKids(i) ==
  {k \in DOMAIN coros :
     /\ coros[k].parent = i
     /\ coros[k].node \in Sources(BuilderOf(coros[i].node))
                            \cup VSources(BuilderOf(coros[i].node))}

DynamicKids(i) ==
  {k \in DOMAIN coros :
     /\ coros[k].parent = i
     /\ coros[k].node \notin Sources(BuilderOf(coros[i].node))
                               \cup VSources(BuilderOf(coros[i].node))}

\* C31: within one run of a builder, every build of a static or virtual
\* source it spawned is finished when it is past the wait on them (hence
\* when a build of a dynamic source is spawned), and every build it
\* spawned is finished once it has evaluated its staleness conditions or
\* called execute().
C31_StaticThenDynamicThenStaleness ==
  \A i \in DOMAIN coros :
    coros[i].role = "runner" =>
      LET b == BuilderOf(coros[i].node) IN
      /\ (coros[i].pc = "waitdyn" \/ DynamicKids(i) # {}) =>
           \A k \in StaticKids(i) : coros[k].pc = "done"
      /\ (why[b].reached \/ execCount[b] > 0) =>
           \A k \in StaticKids(i) \cup DynamicKids(i) : coros[k].pc = "done"

\* C31 witness: a builder has executed after it spawned and awaited the
\* build of a static source and then the build of a dynamic source.
C31_Witness ==
  \E i \in DOMAIN coros :
    /\ coros[i].role = "runner"
    /\ StaticKids(i) # {} /\ DynamicKids(i) # {}
    /\ execCount[BuilderOf(coros[i].node)] > 0

\* The run of the builder has begun: its signal exists, or it is executed.
Begun(b) == sig[b] # "none" \/ executed[b]

\* C32: the static sources of a builder whose run has begun, or whose
\* executed flag is true, do not change: no add_src takes effect on it.
C32_SourcesFixedOnceRun ==
  [][\A b \in Builders : Begun(b) => Sources(b)' = Sources(b)]_vars

\* The sources of b whose builder has ended and reports status st.
Reporting(b, st) ==
  {n \in Sources(b) : BuilderOf(n) # NoB /\ build_status(World, n) = st}

\* The runner of b leaves the wait on its static sources in this step.
LeavesStaticWait(b) ==
  \E i \in DOMAIN coros :
    /\ BuilderOf(coros[i].node) = b /\ coros[i].pc = "waitstatic"
    /\ coros'[i].pc # "waitstatic"

\* C33: the report of a TestSuite is made once per run of its builder, when
\* the wait on the static sources ends, whether they were built or not;
\* it adds to the success counter the number of sources whose builder
\* ended without exception and to the failures counter the number of
\* those whose builder ended with one, and a source whose builder has not
\* run is counted in neither.
C33_SuiteTally ==
  [][phase' = "running" =>
       \A b \in Builders : IsSuite(b) =>
         /\ LeavesStaticWait(b) <=> tests'.reports = tests.reports + 1
         /\ tests'.reports \in {tests.reports, tests.reports + 1}
         /\ tests'.reports = tests.reports =>
              /\ tests'.success = tests.success
              /\ tests'.failures = tests.failures
         /\ tests'.reports = tests.reports + 1 =>
              /\ tests'.success =
                   tests.success + Cardinality(Reporting(b, "true"))
              /\ tests'.failures =
                   tests.failures + Cardinality(Reporting(b, "false"))]_vars

\* execute() of the builder of n returns true in this step and the file
\* of n is there.
Produced(n) ==
  /\ BuilderOf(n) # NoB
  /\ execRes[BuilderOf(n)] = "none"
  /\ execRes'[BuilderOf(n)] \in {"true", "nofile"}
  /\ disk'[n] # Absent

\* C34: the memoized hash of a file target is discarded when its builder
\* has executed successfully, and the memoized hash of a file node is
\* discarded in no other step of a run; hence the hash that is memoized
\* for a target whose builder has executed successfully, which is what a
\* consumer reads or records from then on, is the hash of the content
\* the file has.
C34_MemoDiscardedOnExecute ==
  /\ [](phase = "running" =>
          \A n \in FileNodes :
            (/\ BuilderOf(n) # NoB
             /\ execRes[BuilderOf(n)] \in {"true", "nofile"}
             /\ memo[n] # NoMemo) => memo[n] = Sha1(disk[n]))
  /\ [][phase' = "running" =>
          \A n \in FileNodes :
            /\ Produced(n) => memo'[n] = NoMemo
            /\ (memo[n] # NoMemo /\ memo'[n] = NoMemo) => Produced(n)]_vars

\* C34 witness: B3 recorded the hash of the header h it found on disk,
\* then the builder of h produced another content in the same run, and
\* the hash memoized for h is discarded.
C34_Witness ==
  /\ Gen /\ phase = "running"
  /\ execRes["B3"] = "true" /\ execRes["B4"] = "true"
  /\ catf["B3"]["hdr"].exists
  /\ catf["B3"]["hdr"].sha["h"] \notin {NoRec, Sha1(disk["h"])}
  /\ memo["h"] = NoMemo

\* C35: when execute() of a builder returned false in the previous run and
\* nothing was changed since, the builder, once its run reaches the
\* staleness decision, is executed again, whether the failed execution
\* left its target or not.
C35_FailureNotCached ==
  \A b \in Builders :
    (/\ phase = "running" /\ ~changed
     /\ b \in prevRes
     /\ why[b].reached) => execCount[b] >= 1

\* C36: a construction of a builder that fails with a builder redefinition
\* leaves the nodes as they were: no target has its builder changed and
\* no source has a consumer more.
C36_FailedConstructionLeavesGraph ==
  [][(/\ desc'.balloc = desc.balloc + 1
      /\ desc'.last.res = "builder redefinition") =>
       desc'.objs = desc.objs]_vars

\* C37: every node a builder lists among its targets has that builder as
\* its builder, so that no node is a target of two builders.
C37_TargetsPointBack ==
  \A id \in DOMAIN desc.btargets :
    \A k \in DOMAIN desc.btargets[id] :
      desc.objs[desc.btargets[id][k]].builder = id

\* The coroutine that ran builder b has left Builder.run.
RunnerLeft(b) ==
  \E i \in DOMAIN coros :
    /\ BuilderOf(coros[i].node) = b
    /\ coros[i].role = "runner" /\ coros[i].pc = "done"

\* The coroutines suspended on the signal of builder b.
Frozen(b) ==
  {i \in DOMAIN coros : coros[i].pc = "waitsig" /\ BuilderOf(coros[i].node) = b}

BuilderNames == {BuilderOrder[k] : k \in 1..Len(BuilderOrder)}

\* C38: when the coroutine that runs builder B has left B.run(), by return
\* or by exception, B is executed and its signal has fired; the coroutines
\* suspended on the signal are then all resumed, unless an exception that
\* left a top-level coroutine has ended Scheduler.run first.
C38_SignalledOnLeave ==
  /\ [](\A b \in BuilderNames :
          RunnerLeft(b) => executed[b] /\ sig[b] = "fired")
  /\ \A b \in BuilderNames :
       (RunnerLeft(b) /\ Frozen(b) # {})
         ~> ((phase = "running" /\ Frozen(b) = {}) \/ Stopped)

\* C38 witness: a coroutine that was suspended on the signal of a builder
\* whose runner left by an exception has resumed and ended.
C38_Witness ==
  \E i, j \in DOMAIN coros :
    /\ BuilderOf(coros[i].node) = BuilderOf(coros[j].node)
    /\ coros[j].role = "runner" /\ coros[j].pc = "done" /\ coros[j].exc # NoExc
    /\ coros[i].role = "waiter" /\ coros[i].pc = "done"

\* C38 as stated: every coroutine suspended on the signal of B resumes
\* after the runner of B has left run(), whatever happens to the scheduler.
C38_EveryWaiterResumes ==
  \A b \in BuilderNames :
    (RunnerLeft(b) /\ Frozen(b) # {}) ~> (phase = "running" /\ Frozen(b) = {})

\* Node n needs node m: m is n or a static source, at any depth, of the
\* builder of n.
RECURSIVE Requires(_, _)
Requires(n, m) ==
  \/ n = m
  \/ BuilderOf(n) # NoB /\ \E d \in Sources(BuilderOf(n)) : Requires(d, m)

\* The builders reachable from the requested nodes.
Needed ==
  {b \in Builders : \E x \in req : \E y \in Targets(b) : Requires(x, y)}

\* Scheduler.run is over: no coroutine can run.
Quiescent == phase = "running" /\ ~ENABLED RunOne

\* Scheduler.run returns: it is over and no exception left a top-level
\* coroutine.
Returns == Quiescent /\ ~Stopped

\* C39: under a fair scheduler a run of the driver over any requested
\* nodes of the acyclic description terminates: Scheduler.run returns or
\* raises the exception of a top-level coroutine; when it returns no
\* coroutine is left frozen, every spawned coroutine is done and every
\* builder reachable from a requested node is executed.
C39_RunTerminates ==
  /\ (phase = "running") ~> Quiescent
  /\ [](Returns => /\ AllDone
                   /\ \A b \in BuilderNames : b \in Needed => executed[b])

\* C39 witness: Scheduler.run returns from a run that requested r and t,
\* in which a coroutine was suspended on a signal and a command was
\* executed.
C39_Witness ==
  /\ Returns /\ req = {"r", "t"}
  /\ \E i \in DOMAIN coros : coros[i].role = "waiter"
  /\ \E b \in Builders : execCount[b] > 0

\* C39 as stated: in every run every spawned coroutine becomes done.
C39_EveryCoroutineDone ==
  (phase = "running") ~> (phase = "running" /\ AllDone)

====
